---------------------------- MODULE Spec2Model ----------------------------
(***************************************************************************)
(* A model of the docstore resource store (src/src/store.rs), its indexer  *)
(* (src/src/indexer.rs), the extractors (src/src/fts.rs) and the variant   *)
(* transformers (src/src/transformers).                                    *)
(*                                                                         *)
(* Every public operation of ResourceStore is one action.  A handler is    *)
(* written as the sequence of calls its code makes, threaded through a     *)
(* record `s` (the store's fields plus the handler's locals) by Then: the  *)
(* first call that returns an error ends the handler, as `?` does.         *)
(* Calls that touch the file system, the block store or SQLite can fail    *)
(* for reasons outside the program; s.failAt names which of them (counted  *)
(* in execution order) fails in this run of the handler, 0 for none.       *)
(***************************************************************************)
EXTENDS Integers, Sequences, FiniteSets, TLC

(***************************************************************************)
(* Bounds of the model.                                                    *)
(***************************************************************************)
\* Number of public operations in one behaviour.
MaxOps == 4
\* Largest number of equal rows kept in one index table (the tables have no
\* uniqueness constraint besides resources.id).
MaxRows == 2
\* Largest position of the failing external call in one handler.
MaxFailAt == 20
\* Number of public operations in one behaviour in which external calls fail.
MaxFaultOps == 3
\* Number of public operations in one behaviour of SpecContents.
MaxContentOps == 4
\* Number of public operations in one behaviour of SpecRecover.
MaxRecoverOps == 4
\* Number of public operations in one behaviour of SpecKey.
MaxKeyOps == 3
\* SpecIds: components in a path, characters in a component.
MaxIdLen == 2
MaxCompLen == 2
\* Number of block store calls in one behaviour of SpecBlocks.
MaxBlockOps == 3

(***************************************************************************)
(* Data: characters, texts, contents, paths.                               *)
(***************************************************************************)
\* A text or a content is a sequence of characters; a path is a sequence of
\* components, each a non-empty text.
A == <<"a">>
B == <<"b">>
C == <<"c">>

Paths == {<<A>>, <<A, B>>, <<C>>}

Tags == {"t1", "t2"}

\* In a content "P" stands for the magic bytes of a decodable image, "x" for
\* a byte that is not valid UTF-8, "{" and "}" for the braces of a JSON text.

IsPrefix(p, q) == Len(p) <= Len(q) /\ SubSeq(q, 1, Len(p)) = p

ProperPrefixes(p) == {SubSeq(p, 1, n) : n \in 1..(Len(p) - 1)}

\* Maps with a dynamic key set (HashMap, wnfs Metadata).
EmptyMap == [x \in {} |-> 0]

Put(m, k, v) == [x \in (DOMAIN m) \cup {k} |-> IF x = k THEN v ELSE m[x]]

Del(m, k) == [x \in (DOMAIN m) \ {k} |-> m[x]]

(***************************************************************************)
(* resource.rs                                                             *)
(***************************************************************************)
RECURSIVE Join(_)
\* ResourceId::from(&[String]): the components joined by "/".
Join(path) ==
    IF Len(path) = 0 THEN << >>
    ELSE IF Len(path) = 1 THEN path[1]
    ELSE path[1] \o <<"/">> \o Join(Tail(path))

RECURSIVE SplitFrom(_, _)
SplitFrom(text, cur) ==
    IF Len(text) = 0 THEN <<cur>>
    ELSE IF Head(text) = "/" THEN <<cur>> \o SplitFrom(Tail(text), << >>)
    ELSE SplitFrom(Tail(text), Append(cur, Head(text)))

\* Vec<String>::from(ResourceId) that does not split.
Split_Whole(rid) == <<rid>>

\* Vec<String>::from(ResourceId): split at every "/".
Split(rid) == SplitFrom(rid, << >>)

VariantMetadata(size, mime) == [size |-> size, mime_type |-> mime]

\* ResourceMetadata::new that does not insert the default variant.
NewResourceMetadata_NoDefault(desc, default_variant, tags) ==
    [desc |-> desc, variants |-> EmptyMap, tags |-> tags]

\* ResourceMetadata::new
NewResourceMetadata(desc, default_variant, tags) ==
    [desc |-> desc,
     variants |-> Put(EmptyMap, "default", default_variant),
     tags |-> tags]

has_variant(rm, name) == name \in DOMAIN rm.variants

rm_add_variant(rm, name, variant) ==
    [rm EXCEPT !.variants = Put(@, name, variant)]

rm_remove_variant(rm, name) == [rm EXCEPT !.variants = Del(@, name)]

rm_add_tag(rm, tag) == [rm EXCEPT !.tags = @ \cup {tag}]

rm_remove_tag(rm, tag) == [rm EXCEPT !.tags = @ \ {tag}]

(***************************************************************************)
(* The private directory /.resources (wnfs PrivateDirectory), as the map   *)
(* from the paths below it to their nodes.                                 *)
(***************************************************************************)
NoNode == [kind |-> "none"]

DirNode == [kind |-> "dir"]

\* A PrivateFile: its content and its Metadata key/value map.
FileNode(content, md) == [kind |-> "file", content |-> content, md |-> md]

EmptyDir == [p \in Paths |-> NoNode]

\* The metadata keys the store uses.
ResMetaKey == <<"res_meta">>

\* format!("{}_variant", variant_name)
VariantKey(name) == <<name, "_variant">>

\* PrivateDirectory::get_node: the node at path, None when a component is
\* missing or is not a directory.
get_node(dir, path) ==
    IF path \in Paths /\ \A q \in ProperPrefixes(path) : dir[q].kind = "dir"
    THEN dir[path]
    ELSE NoNode

\* PrivateDirectory::open_file_mut: creates the missing directories on the
\* way and the file itself when it is missing; fails when a directory is in
\* the place of the file or a file in the place of a directory.
open_file_mut(dir, path) ==
    IF \E q \in ProperPrefixes(path) : dir[q].kind = "file"
    THEN [err |-> "IPLD", dir |-> dir]
    ELSE IF dir[path].kind = "dir"
    THEN [err |-> "IPLD", dir |-> dir]
    ELSE [err |-> "Ok",
          dir |-> [p \in Paths |->
                     IF p \in ProperPrefixes(path) THEN DirNode
                     ELSE IF p = path /\ dir[p].kind = "none"
                     THEN FileNode(<< >>, EmptyMap)
                     ELSE dir[p]]]

\* PrivateDirectory::rm: removes the node and everything below it; fails
\* when the node does not exist.
rm(dir, path) ==
    IF get_node(dir, path).kind = "none"
    THEN [err |-> "IPLD", dir |-> dir]
    ELSE [err |-> "Ok",
          dir |-> [p \in Paths |-> IF IsPrefix(path, p) THEN NoNode ELSE dir[p]]]

\* Metadata::get_deserializable("res_meta") of a node: present and decoded.
HasResMeta(node) == node.kind = "file" /\ ResMetaKey \in DOMAIN node.md


(***************************************************************************)
(* The handler state.  Store fields: forest (the in-memory HamtForest: the *)
(* /.resources directory and the /.index/index.sqlite snapshot), disk (the *)
(* forest named by rootDir/forest.cid), the three tables of index.sqlite   *)
(* and the indexer's should_update flag.  Handler locals: dir (the Rc      *)
(* clone of /.resources being edited), rd (the content stream: bytes and   *)
(* position), frame (the operation executing, with its nesting depth),     *)
(* io/failAt/err (external calls made, the one that fails, the result),    *)
(* log (the effects in execution order), overflow (a table outgrew         *)
(* MaxRows).                                                               *)
(***************************************************************************)
Then(s, F(_)) == IF s.err # "Ok" THEN s ELSE F(s)

Fail(s, kind) == [s EXCEPT !.err = kind]

\* An external call (file system, block store, SQLite): it fails when it
\* is the failAt-th of the handler.
Try(s, kind) ==
    IF s.io + 1 = s.failAt
    THEN [s EXCEPT !.io = @ + 1, !.err = kind]
    ELSE [s EXCEPT !.io = @ + 1]

Ev(s, ev) == [s EXCEPT !.log = Append(@, [op |-> s.frame.op, depth |-> s.frame.depth, ev |-> ev])]

\* Tables without a uniqueness constraint are bags: row -> number of copies.
BagAdd(b, e) ==
    IF e \in DOMAIN b THEN [b EXCEPT ![e] = @ + 1] ELSE Put(b, e, 1)

BagFull(b, e) == e \in DOMAIN b /\ b[e] >= MaxRows

BagKeep(b, Keep(_)) == [e \in {x \in DOMAIN b : Keep(x)} |-> b[e]]

IndexTables(s) == [resources |-> s.resources, tags |-> s.tags, fts |-> s.fts]

(***************************************************************************)
(* fts.rs: the extractors.                                                 *)
(***************************************************************************)
Rest(rd) == SubSeq(rd.bytes, rd.pos + 1, Len(rd.bytes))

AtEnd(rd) == [rd EXCEPT !.pos = Len(rd.bytes)]

Rewound(rd) == [rd EXCEPT !.pos = 0]

ValidUtf8(bytes) == \A i \in 1..Len(bytes) : bytes[i] # "x"

\* text_plain_indexer: read_to_string from the current position.
text_plain_indexer(rd) ==
    IF ValidUtf8(Rest(rd))
    THEN [err |-> "Ok", text |-> Rest(rd), rd |-> AtEnd(rd)]
    ELSE [err |-> "Sqlite", text |-> << >>, rd |-> AtEnd(rd)]

\* A places document is modelled as "{" title "}": serde_json accepts it
\* and the indexed fields (url, title) are the characters between the braces.
IsJson(bytes) == Len(bytes) >= 2 /\ bytes[1] = "{" /\ bytes[Len(bytes)] = "}"

\* FlatJsonIndexer::get_text
get_text(rd) ==
    IF IsJson(Rest(rd))
    THEN [err |-> "Ok", text |-> SubSeq(Rest(rd), 2, Len(Rest(rd)) - 1), rd |-> AtEnd(rd)]
    ELSE [err |-> "Sqlite", text |-> << >>, rd |-> AtEnd(rd)]

\* json_indexer: only "application/x-places+json" has an indexer.
json_indexer(rd, mime) ==
    IF mime = "application/x-places+json"
    THEN get_text(rd)
    ELSE [err |-> "Sqlite", text |-> << >>, rd |-> rd]

\* mime.ends_with("json")
EndsWithJson(mime) ==
    mime \in {"application/x-places+json", "application/x-contact+json", "application/json"}

\* meta.mime_type().starts_with("image/")
StartsWithImage(mime) == mime \in {"image/png", "image/jpeg"}

(***************************************************************************)
(* indexer.rs                                                              *)
(***************************************************************************)
\* secular::lower_lay_string on one character: lower case, no diacritic.
LowerLayChar(ch) ==
    CASE ch = "A" -> "a"
      [] ch = "E" -> "e"
      [] ch = "é" -> "e"
      [] ch = "É" -> "e"
      [] OTHER -> ch

lower_lay_string(text) == [i \in 1..Len(text) |-> LowerLayChar(text[i])]

\* INSERT INTO resources: id is the PRIMARY KEY.
ix_add_resource(s, id) ==
    Then(Try(s, "Sqlite"), LAMBDA s1 :
      IF id \in s1.resources THEN Fail(s1, "Sqlite")
      ELSE Ev([s1 EXCEPT !.resources = @ \cup {id}, !.should_update = TRUE],
              "ix_add_resource"))

\* Indexer::delete_resource without the DELETE FROM fts.
ix_delete_resource_KeepFts(s, id) ==
    Then(Try(s, "Sqlite"), LAMBDA s1 :
      Ev([s1 EXCEPT !.resources = @ \ {id},
                    !.tags = BagKeep(@, LAMBDA r : r[1] # id),
                    !.should_update = TRUE], "ix_delete_resource"))

\* DELETE FROM resources (the tags rows go with it: ON DELETE CASCADE), then
\* DELETE FROM fts.
ix_delete_resource(s, id) ==
    Then(Try(s, "Sqlite"), LAMBDA s1 :
    Then(Try([s1 EXCEPT !.resources = @ \ {id},
                        !.tags = BagKeep(@, LAMBDA r : r[1] # id)], "Sqlite"),
         LAMBDA s2 :
      Ev([s2 EXCEPT !.fts = BagKeep(@, LAMBDA r : r[1] # id),
                    !.should_update = TRUE], "ix_delete_resource")))

\* DELETE FROM fts WHERE id = ?1 AND variant = ?2
ix_delete_variant(s, id, variant) ==
    Then(Try(s, "Sqlite"), LAMBDA s1 :
      Ev([s1 EXCEPT !.fts = BagKeep(@, LAMBDA r : ~(r[1] = id /\ r[2] = variant)),
                    !.should_update = TRUE], "ix_delete_variant"))

\* INSERT INTO tags: id REFERENCES resources(id).
ix_add_tag(s, id, tag) ==
    Then(Try(s, "Sqlite"), LAMBDA s1 :
      IF id \notin s1.resources THEN Fail(s1, "Sqlite")
      ELSE Ev([s1 EXCEPT !.tags = BagAdd(@, <<id, tag>>),
                         !.overflow = @ \/ BagFull(s1.tags, <<id, tag>>),
                         !.should_update = TRUE], "ix_add_tag"))

\* INSERT INTO fts, after lower_lay_string.
ix_add_text(s, id, variant_name, text) ==
    Then(Try(s, "Sqlite"), LAMBDA s1 :
      LET row == <<id, variant_name, lower_lay_string(text)>>
      IN Ev([s1 EXCEPT !.fts = BagAdd(@, row),
                       !.overflow = @ \/ BagFull(s1.fts, row),
                       !.should_update = TRUE], "ix_add_text"))

\* The extractor Indexer::add_variant picks for a MIME type.
Extract(rd, mime) ==
    IF EndsWithJson(mime) THEN json_indexer(rd, mime) @@ [some |-> TRUE]
    ELSE IF mime = "text/plain" THEN text_plain_indexer(rd) @@ [some |-> TRUE]
    ELSE [err |-> "Ok", text |-> << >>, rd |-> rd, some |-> FALSE]

\* Indexer::add_variant without the final seek(0): the stream is left where
\* the extractor stopped.
ix_add_variant_NoRewind(s, id, variant_name, variant) ==
    LET x == Extract(s.rd, variant.mime_type)
        s1 == [s EXCEPT !.rd = x.rd]
    IN IF x.err # "Ok" THEN Fail(s1, x.err)
       ELSE IF x.some THEN ix_add_text(s1, id, variant_name, x.text) ELSE s1

\* Indexer::add_variant: extract, add_text when there is a text, seek(0).
ix_add_variant(s, id, variant_name, variant) ==
    LET x == Extract(s.rd, variant.mime_type)
        s1 == [s EXCEPT !.rd = x.rd]
    IN IF x.err # "Ok" THEN Fail(s1, x.err)
       ELSE Then(IF x.some THEN ix_add_text(s1, id, variant_name, x.text) ELSE s1,
                 LAMBDA s2 : [s2 EXCEPT !.rd = Rewound(@)])

\* Indexer::update_variant: delete_variant followed by add_variant.
ix_update_variant(s, id, variant_name, variant) ==
    Then(ix_delete_variant(s, id, variant_name), LAMBDA s1 :
      ix_add_variant(s1, id, variant_name, variant))

\* Indexer::remove_tag: DELETE FROM tags WHERE id = ?1 AND tag = ?2
ix_remove_tag(s, id, tag) ==
    Then(Try(s, "Sqlite"), LAMBDA s1 :
      Ev([s1 EXCEPT !.tags = BagKeep(@, LAMBDA r : r # <<id, tag>>),
                    !.should_update = TRUE], "ix_remove_tag"))

RECURSIVE Like(_, _)
\* The LIKE operator of SQLite: "%" in the pattern matches any sequence of
\* characters, "_" matches any one character.
Like(text, pattern) ==
    IF Len(pattern) = 0 THEN Len(text) = 0
    ELSE IF Head(pattern) = "%"
    THEN \E i \in 0..Len(text) : Like(SubSeq(text, i + 1, Len(text)), Tail(pattern))
    ELSE /\ Len(text) > 0
         /\ Head(pattern) = "_" \/ Head(pattern) = Head(text)
         /\ Like(Tail(text), Tail(pattern))

\* content LIKE '%q%': format!("%{}%", q) is the pattern, q is not escaped.
Contains(text, q) == Like(text, <<"%">> \o q \o <<"%">>)

\* Indexer::search: SELECT DISTINCT id FROM fts WHERE content LIKE '%q%'
ix_search(fts, text) ==
    {r[1] : r \in {x \in DOMAIN fts : Contains(x[3], lower_lay_string(text))}}

(***************************************************************************)
(* transformers/mod.rs, transformers/thumbnailer.rs                        *)
(***************************************************************************)
\* ImageReader::decode succeeds on the contents that start with "P".
Decodes(bytes) == Len(bytes) > 0 /\ bytes[1] = "P"

\* The JPEG bytes of the thumbnail of a decodable image.
Thumb(bytes) == <<"J">> \o Tail(bytes)

\* create_thumbnail that declares the thumbnail as image/png.
create_thumbnail_Png(rd) ==
    IF Decodes(rd.bytes)
    THEN [ok |-> TRUE, rd |-> Rewound(rd),
          v |-> [name |-> "thumbnail",
                 meta |-> VariantMetadata(Len(Thumb(rd.bytes)), "image/png"),
                 content |-> Thumb(rd.bytes)]]
    ELSE [ok |-> FALSE, rd |-> Rewound(rd), v |-> << >>]

\* create_thumbnail without the seek(0) that follows read_to_end.
create_thumbnail_NoRewind(rd) ==
    IF Decodes(rd.bytes)
    THEN [ok |-> TRUE, rd |-> AtEnd(rd),
          v |-> [name |-> "thumbnail",
                 meta |-> VariantMetadata(Len(Thumb(rd.bytes)), "image/jpeg"),
                 content |-> Thumb(rd.bytes)]]
    ELSE [ok |-> FALSE, rd |-> AtEnd(rd), v |-> << >>]

\* create_thumbnail: seek(0), read_to_end, seek(0), decode, encode.
create_thumbnail(rd) ==
    IF Decodes(rd.bytes)
    THEN [ok |-> TRUE, rd |-> Rewound(rd),
          v |-> [name |-> "thumbnail",
                 meta |-> VariantMetadata(Len(Thumb(rd.bytes)), "image/jpeg"),
                 content |-> Thumb(rd.bytes)]]
    ELSE [ok |-> FALSE, rd |-> Rewound(rd), v |-> << >>]

\* Thumbnailer::transform_variant on a VariantChange [kind, meta].
transform_variant(change, rd) ==
    IF ~StartsWithImage(change.meta.mime_type) THEN [rd |-> rd, results |-> << >>]
    ELSE IF change.kind = "Deleted"
    THEN [rd |-> rd, results |-> <<[kind |-> "Delete", name |-> "thumbnail"]>>]
    ELSE LET t == create_thumbnail(rd)
         IN IF ~t.ok THEN [rd |-> t.rd, results |-> << >>]
            ELSE IF change.kind = "Created"
            THEN [rd |-> t.rd, results |-> <<[kind |-> "Create"] @@ t.v>>]
            ELSE [rd |-> t.rd, results |-> <<[kind |-> "Update"] @@ t.v>>]

\* run_transformers: the thumbnailer is the only transformer.
run_transformers(s, change) ==
    LET r == transform_variant(change, s.rd)
    IN Ev([s EXCEPT !.rd = r.rd, !.results = r.results], "run_transformers")

(***************************************************************************)
(* store.rs                                                                *)
(***************************************************************************)
\* ResourceStore::resources_dir: loads /.resources from the forest.
resources_dir(s) ==
    Then(Try(s, "IPLD"), LAMBDA s1 : [s1 EXCEPT !.dir = s1.forest.res])

\* dir.open_file_mut(path, ...) on the handler's clone of /.resources.
OpenFile(s, path) ==
    Then(Try(s, "IPLD"), LAMBDA s1 :
      LET r == open_file_mut(s1.dir, path)
      IN IF r.err # "Ok" THEN Fail(s1, r.err) ELSE [s1 EXCEPT !.dir = r.dir])

\* dir.as_node().store(&mut self.forest, ...): the edited /.resources
\* becomes the one the forest holds.
StoreDir(s) ==
    Then(Try(s, "IPLD"), LAMBDA s1 :
      Ev([s1 EXCEPT !.forest.res = s1.dir], "store_dir"))

\* save_state that calls set_updated before it writes the snapshot.
save_state_ClearFirst(s) ==
    LET Commit(t) ==
          Then(Try(t, "IPLD"), LAMBDA t1 :
          Then(Try(t1, "IO"), LAMBDA t2 :
            Ev([t2 EXCEPT !.disk = t2.forest, !.cid_ok = TRUE], "write_forest_cid")))
    IN IF s.should_update
       THEN Then(Try([s EXCEPT !.should_update = FALSE], "IPLD"), LAMBDA s1 :
            Then(Try(s1, "IPLD"), LAMBDA s2 :
            Then(Try(s2, "IO"), LAMBDA s3 :
            Then(Try(s3, "IPLD"), LAMBDA s4 :
            Then(Try(s4, "IPLD"), LAMBDA s5 :
              Commit(Ev([s5 EXCEPT !.forest.snap = IndexTables(s5)], "store_index")))))))
       ELSE Commit(s)

\* save_state that snapshots the index but never rewrites forest.cid.
save_state_NoCid(s) ==
    IF s.should_update
    THEN Then(Try(s, "IPLD"), LAMBDA s1 :
         Then(Try(s1, "IPLD"), LAMBDA s2 :
         Then(Try(s2, "IO"), LAMBDA s3 :
         Then(Try(s3, "IPLD"), LAMBDA s4 :
         Then(Try(s4, "IPLD"), LAMBDA s5 :
           Ev([s5 EXCEPT !.forest.snap = IndexTables(s5),
                         !.should_update = FALSE], "store_index"))))))
    ELSE s

\* ResourceStore::save_state
save_state(s) ==
    LET Commit(t) ==
          Then(Try(t, "IPLD"), LAMBDA t1 :
          Then(Try(t1, "IO"), LAMBDA t2 :
            Ev([t2 EXCEPT !.disk = t2.forest, !.cid_ok = TRUE], "write_forest_cid")))
    IN IF s.should_update
       THEN Then(Try(s, "IPLD"), LAMBDA s1 :
            Then(Try(s1, "IPLD"), LAMBDA s2 :
            Then(Try(s2, "IO"), LAMBDA s3 :
            Then(Try(s3, "IPLD"), LAMBDA s4 :
            Then(Try(s4, "IPLD"), LAMBDA s5 :
              Commit(Ev([s5 EXCEPT !.forest.snap = IndexTables(s5),
                                   !.should_update = FALSE], "store_index")))))))
       ELSE Commit(s)

\* The value of "res_meta" in the file at path of the handler's clone.
ResMetaAt(s, path) == s.dir[path].md[ResMetaKey]

PutResMeta(s, path, rmeta) ==
    [s EXCEPT !.dir[path].md = Put(@, ResMetaKey, rmeta)]

\* PrivateForestContent::new_streaming / PrivateFile::with_content_streaming
\* read the stream from its current position to its end.
ReadStream(s) == Then(Try(s, "IPLD"), LAMBDA s1 : [s1 EXCEPT !.rd = AtEnd(@), !.src = Rest(s1.rd)])

\* add_variant that stores the tree before it updates the indexer.
add_variant_TreeFirst(s, path, variant_name, variant) ==
    IF variant_name = "default" THEN Fail(s, "InvalidVariant")
    ELSE
    Then(resources_dir(s), LAMBDA s1 :
    Then(OpenFile(s1, path), LAMBDA s2 :
      IF ~HasResMeta(s2.dir[path]) THEN Fail(s2, "NoResourceMetadata")
      ELSE
      Then(ReadStream(PutResMeta(s2, path, rm_add_variant(ResMetaAt(s2, path), variant_name, variant))),
           LAMBDA s3 :
      Then(StoreDir([s3 EXCEPT !.dir[path].md = Put(@, VariantKey(variant_name), [ref |-> s3.src])]),
           LAMBDA s4 :
      Then(ix_add_variant([s4 EXCEPT !.rd = Rewound(@)], Join(path), variant_name, variant),
           save_state)))))

\* add_variant that writes the content into the file body instead of a
\* reference under "{name}_variant".
add_variant_IntoBody(s, path, variant_name, variant) ==
    IF variant_name = "default" THEN Fail(s, "InvalidVariant")
    ELSE
    Then(resources_dir(s), LAMBDA s1 :
    Then(OpenFile(s1, path), LAMBDA s2 :
      IF ~HasResMeta(s2.dir[path]) THEN Fail(s2, "NoResourceMetadata")
      ELSE
      Then(ix_add_variant(PutResMeta(s2, path, rm_add_variant(ResMetaAt(s2, path), variant_name, variant)),
                          Join(path), variant_name, variant), LAMBDA s3 :
      Then(ReadStream(s3), LAMBDA s4 :
      Then(StoreDir([s4 EXCEPT !.dir[path].content = s4.src]), save_state)))))

\* add_variant that records the variant in "res_meta" and in the index but
\* does not put the "{name}_variant" reference.
add_variant_MetaOnly(s, path, variant_name, variant) ==
    IF variant_name = "default" THEN Fail(s, "InvalidVariant")
    ELSE
    Then(resources_dir(s), LAMBDA s1 :
    Then(OpenFile(s1, path), LAMBDA s2 :
      IF ~HasResMeta(s2.dir[path]) THEN Fail(s2, "NoResourceMetadata")
      ELSE
      Then(ix_add_variant(PutResMeta(s2, path, rm_add_variant(ResMetaAt(s2, path), variant_name, variant)),
                          Join(path), variant_name, variant), LAMBDA s3 :
      Then(ReadStream(s3), LAMBDA s4 :
      Then(StoreDir(s4), save_state)))))

\* ResourceStore::add_variant
add_variant(s, path, variant_name, variant) ==
    IF variant_name = "default" THEN Fail(s, "InvalidVariant")
    ELSE
    Then(resources_dir(s), LAMBDA s1 :
    Then(OpenFile(s1, path), LAMBDA s2 :
      IF ~HasResMeta(s2.dir[path]) THEN Fail(s2, "NoResourceMetadata")
      ELSE
      Then(ix_add_variant(PutResMeta(s2, path, rm_add_variant(ResMetaAt(s2, path), variant_name, variant)),
                          Join(path), variant_name, variant), LAMBDA s3 :
      Then(ReadStream(s3), LAMBDA s4 :
      Then(StoreDir([s4 EXCEPT !.dir[path].md = Put(@, VariantKey(variant_name), [ref |-> s4.src])]),
           save_state)))))

\* update_variant whose "default" branch records the meta argument as the
\* default entry of the ResourceMetadata.
update_variant_StoreDefaultMeta(s, path, variant_name, variant) ==
    Then(resources_dir(s), LAMBDA s1 :
    Then(OpenFile(s1, path), LAMBDA s2 :
      IF variant_name = "default"
      THEN Then(ix_update_variant(IF HasResMeta(s2.dir[path])
                                  THEN PutResMeta(s2, path, rm_add_variant(ResMetaAt(s2, path), variant_name, variant))
                                  ELSE s2,
                                  Join(path), variant_name, variant), LAMBDA s3 :
           Then(ReadStream(s3), LAMBDA s4 :
           Then(StoreDir([s4 EXCEPT !.dir[path].content = s4.src]), save_state)))
      ELSE IF ~HasResMeta(s2.dir[path]) THEN Fail(s2, "NoResourceMetadata")
      ELSE
      Then(ix_update_variant(PutResMeta(s2, path, rm_add_variant(ResMetaAt(s2, path), variant_name, variant)),
                             Join(path), variant_name, variant), LAMBDA s3 :
      Then(ReadStream(s3), LAMBDA s4 :
      Then(StoreDir([s4 EXCEPT !.dir[path].md = Put(@, VariantKey(variant_name), [ref |-> s4.src])]),
           save_state)))))

\* update_variant that writes the new ResourceMetadata entry and the index
\* rows but not the new content reference.
update_variant_KeepContent(s, path, variant_name, variant) ==
    Then(resources_dir(s), LAMBDA s1 :
    Then(OpenFile(s1, path), LAMBDA s2 :
      IF variant_name = "default"
      THEN Then(ix_update_variant(s2, Join(path), variant_name, variant), LAMBDA s3 :
           Then(ReadStream(s3), LAMBDA s4 :
           Then(StoreDir([s4 EXCEPT !.dir[path].content = s4.src]), save_state)))
      ELSE IF ~HasResMeta(s2.dir[path]) THEN Fail(s2, "NoResourceMetadata")
      ELSE
      Then(ix_update_variant(PutResMeta(s2, path, rm_add_variant(ResMetaAt(s2, path), variant_name, variant)),
                             Join(path), variant_name, variant), LAMBDA s3 :
      Then(ReadStream(s3), LAMBDA s4 :
      Then(StoreDir(s4), save_state)))))

\* ResourceStore::update_variant
update_variant(s, path, variant_name, variant) ==
    Then(resources_dir(s), LAMBDA s1 :
    Then(OpenFile(s1, path), LAMBDA s2 :
      IF variant_name = "default"
      THEN Then(ix_update_variant(s2, Join(path), variant_name, variant), LAMBDA s3 :
           Then(ReadStream(s3), LAMBDA s4 :
           Then(StoreDir([s4 EXCEPT !.dir[path].content = s4.src]), save_state)))
      ELSE IF ~HasResMeta(s2.dir[path]) THEN Fail(s2, "NoResourceMetadata")
      ELSE
      Then(ix_update_variant(PutResMeta(s2, path, rm_add_variant(ResMetaAt(s2, path), variant_name, variant)),
                             Join(path), variant_name, variant), LAMBDA s3 :
      Then(ReadStream(s3), LAMBDA s4 :
      Then(StoreDir([s4 EXCEPT !.dir[path].md = Put(@, VariantKey(variant_name), [ref |-> s4.src])]),
           save_state)))))

\* delete_variant that leaves the "{name}_variant" reference in the inode.
delete_variant_KeepRef(s, path, variant_name) ==
    IF variant_name = "default" THEN Fail(s, "InvalidVariant")
    ELSE
    Then(resources_dir(s), LAMBDA s1 :
    Then(OpenFile(s1, path), LAMBDA s2 :
      IF ~HasResMeta(s2.dir[path]) THEN Fail(s2, "NoResourceMetadata")
      ELSE IF ~has_variant(ResMetaAt(s2, path), variant_name) THEN Fail(s2, "NoSuchVariant")
      ELSE
      Then(StoreDir(PutResMeta(s2, path, rm_remove_variant(ResMetaAt(s2, path), variant_name))),
           LAMBDA s4 :
      Then(ix_delete_variant(s4, Join(path), variant_name), save_state))))

\* delete_variant without the test of the name "default".
delete_variant_AnyName(s, path, variant_name) ==
    Then(resources_dir(s), LAMBDA s1 :
    Then(OpenFile(s1, path), LAMBDA s2 :
      IF ~HasResMeta(s2.dir[path]) THEN Fail(s2, "NoResourceMetadata")
      ELSE IF ~has_variant(ResMetaAt(s2, path), variant_name) THEN Fail(s2, "NoSuchVariant")
      ELSE
      LET s3 == PutResMeta(s2, path, rm_remove_variant(ResMetaAt(s2, path), variant_name))
      IN Then(StoreDir([s3 EXCEPT !.dir[path].md = Del(@, VariantKey(variant_name))]), LAMBDA s4 :
         Then(ix_delete_variant(s4, Join(path), variant_name), save_state))))

\* delete_variant without the test of has_variant.
delete_variant_Lenient(s, path, variant_name) ==
    IF variant_name = "default" THEN Fail(s, "InvalidVariant")
    ELSE
    Then(resources_dir(s), LAMBDA s1 :
    Then(OpenFile(s1, path), LAMBDA s2 :
      IF ~HasResMeta(s2.dir[path]) THEN Fail(s2, "NoResourceMetadata")
      ELSE
      LET s3 == PutResMeta(s2, path, rm_remove_variant(ResMetaAt(s2, path), variant_name))
      IN Then(StoreDir([s3 EXCEPT !.dir[path].md = Del(@, VariantKey(variant_name))]), LAMBDA s4 :
         Then(ix_delete_variant(s4, Join(path), variant_name), save_state))))

\* ResourceStore::delete_variant
delete_variant(s, path, variant_name) ==
    IF variant_name = "default" THEN Fail(s, "InvalidVariant")
    ELSE
    Then(resources_dir(s), LAMBDA s1 :
    Then(OpenFile(s1, path), LAMBDA s2 :
      IF ~HasResMeta(s2.dir[path]) THEN Fail(s2, "NoResourceMetadata")
      ELSE IF ~has_variant(ResMetaAt(s2, path), variant_name) THEN Fail(s2, "NoSuchVariant")
      ELSE
      LET s3 == PutResMeta(s2, path, rm_remove_variant(ResMetaAt(s2, path), variant_name))
      IN Then(StoreDir([s3 EXCEPT !.dir[path].md = Del(@, VariantKey(variant_name))]), LAMBDA s4 :
         Then(ix_delete_variant(s4, Join(path), variant_name), save_state))))

\* delete_resource that returns without save_state.
delete_resource_NoSave(s, path) ==
    Then(resources_dir(s), LAMBDA s1 :
    Then(Try(s1, "IPLD"), LAMBDA s2 :
      LET r == rm(s2.dir, path)
      IN IF r.err # "Ok" THEN Fail(s2, r.err)
         ELSE Then(StoreDir([s2 EXCEPT !.dir = r.dir]), LAMBDA s3 :
              ix_delete_resource(s3, Join(path)))))

\* delete_resource that removes the index rows before the tree mutation.
delete_resource_IndexFirst(s, path) ==
    Then(resources_dir(s), LAMBDA s1 :
    Then(ix_delete_resource(s1, Join(path)), LAMBDA s2 :
    Then(Try(s2, "IPLD"), LAMBDA s3 :
      LET r == rm(s3.dir, path)
      IN IF r.err # "Ok" THEN Fail(s3, r.err)
         ELSE Then(StoreDir([s3 EXCEPT !.dir = r.dir]), save_state))))

\* ResourceStore::delete_resource
delete_resource(s, path) ==
    Then(resources_dir(s), LAMBDA s1 :
    Then(Try(s1, "IPLD"), LAMBDA s2 :
      LET r == rm(s2.dir, path)
      IN IF r.err # "Ok" THEN Fail(s2, r.err)
         ELSE Then(StoreDir([s2 EXCEPT !.dir = r.dir]), LAMBDA s3 :
              Then(ix_delete_resource(s3, Join(path)), save_state))))

\* add_tag that writes the index row but not the tag in "res_meta".
add_tag_IndexOnly(s, path, tag) ==
    Then(resources_dir(s), LAMBDA s1 :
    Then(OpenFile(s1, path), LAMBDA s2 :
      IF ~HasResMeta(s2.dir[path]) THEN Fail(s2, "NoResourceMetadata")
      ELSE Then(StoreDir(s2), LAMBDA s3 :
           Then(ix_add_tag(s3, Join(path), tag), save_state))))

\* ResourceStore::add_tag
add_tag(s, path, tag) ==
    Then(resources_dir(s), LAMBDA s1 :
    Then(OpenFile(s1, path), LAMBDA s2 :
      IF ~HasResMeta(s2.dir[path]) THEN Fail(s2, "NoResourceMetadata")
      ELSE Then(StoreDir(PutResMeta(s2, path, rm_add_tag(ResMetaAt(s2, path), tag))), LAMBDA s3 :
           Then(ix_add_tag(s3, Join(path), tag), save_state))))

\* ResourceStore::remove_tag
remove_tag(s, path, tag) ==
    Then(resources_dir(s), LAMBDA s1 :
    Then(OpenFile(s1, path), LAMBDA s2 :
      IF ~HasResMeta(s2.dir[path]) THEN Fail(s2, "NoResourceMetadata")
      ELSE Then(StoreDir(PutResMeta(s2, path, rm_remove_tag(ResMetaAt(s2, path), tag))), LAMBDA s3 :
           Then(ix_remove_tag(s3, Join(path), tag), save_state))))

\* A recursive call made by apply_variant_transforms runs in a frame of its
\* own, on the transformed content.
Nested(s, op, content) ==
    [s EXCEPT !.frame = [op |-> op, depth |-> @.depth + 1],
              !.rd = [bytes |-> content, pos |-> 0]]

Returned(s, frame) == [s EXCEPT !.frame = frame]

\* One TransformerResult of apply_variant_transforms.
ApplyTransform(s, path, t) ==
    IF t.kind = "Delete"
    THEN Returned(delete_variant(Nested(s, "delete_variant", << >>), path, t.name), s.frame)
    ELSE IF t.name = "default" THEN s
    ELSE IF t.kind = "Create"
    THEN Returned(add_variant(Nested(s, "add_variant", t.content), path, t.name, t.meta), s.frame)
    ELSE Returned(update_variant(Nested(s, "update_variant", t.content), path, t.name, t.meta), s.frame)

RECURSIVE ApplyFrom(_, _, _, _)
ApplyFrom(s, path, transforms, i) ==
    IF i > Len(transforms) THEN s
    ELSE Then(ApplyTransform(s, path, transforms[i]),
              LAMBDA s1 : ApplyFrom(s1, path, transforms, i + 1))

\* ResourceStore::apply_variant_transforms
apply_variant_transforms(s, path, transforms) == ApplyFrom(s, path, transforms, 1)

RECURSIVE AddTags(_, _, _)
\* for tag in tags { self.indexer.add_tag(&id, &tag)?; }
AddTags(s, id, tagSeq) ==
    IF Len(tagSeq) = 0 THEN s
    ELSE Then(ix_add_tag(s, id, Head(tagSeq)),
              LAMBDA s1 : AddTags(s1, id, Tail(tagSeq)))

Range(f) == {f[i] : i \in DOMAIN f}

\* create_resource that runs the transformers once the tree is stored.
create_resource_TransformLate(s, path, desc, default_variant, tagSeq) ==
    LET id == Join(path)
        resource_metadata == NewResourceMetadata(desc, default_variant, Range(tagSeq))
    IN
    Then(resources_dir(s), LAMBDA s1 :
    Then(ix_add_resource(s1, id), LAMBDA s2 :
    Then(AddTags(s2, id, tagSeq), LAMBDA s3 :
    Then(ix_add_text(s3, id, "default", desc), LAMBDA s4 :
    Then(ix_add_variant(s4, id, "default", default_variant), LAMBDA s5 :
    Then(OpenFile(s5, path), LAMBDA s6 :
    Then(ReadStream(s6), LAMBDA s7 :
    Then(StoreDir(PutResMeta([s7 EXCEPT !.dir[path].content = s7.src], path, resource_metadata)),
         LAMBDA s8 :
    Then(run_transformers(s8, [kind |-> "Created", meta |-> default_variant]), LAMBDA s9 :
    Then(apply_variant_transforms(s9, path, s9.results), save_state))))))))))

\* ResourceStore::create_resource; tagSeq is the order in which the HashSet
\* of tags is iterated.
create_resource(s, path, desc, default_variant, tagSeq) ==
    LET id == Join(path)
        resource_metadata == NewResourceMetadata(desc, default_variant, Range(tagSeq))
    IN
    Then(resources_dir(s), LAMBDA s1 :
    Then(ix_add_resource(s1, id), LAMBDA s2 :
    Then(AddTags(s2, id, tagSeq), LAMBDA s3 :
    Then(ix_add_text(s3, id, "default", desc), LAMBDA s4 :
    Then(ix_add_variant(s4, id, "default", default_variant), LAMBDA s5 :
    Then(OpenFile(run_transformers(s5, [kind |-> "Created", meta |-> default_variant]), path),
         LAMBDA s6 :
    Then(ReadStream(s6), LAMBDA s7 :
    Then(StoreDir(PutResMeta([s7 EXCEPT !.dir[path].content = s7.src], path, resource_metadata)),
         LAMBDA s8 :
    Then(apply_variant_transforms(s8, path, s8.results), save_state)))))))))

(***************************************************************************)
(* Reads.  Each returns [err, val].                                        *)
(***************************************************************************)
\* ResourceStore::maybe_file
maybe_file(res, path) ==
    IF get_node(res, path).kind = "file"
    THEN [err |-> "Ok", val |-> get_node(res, path)]
    ELSE [err |-> "NoSuchResource", val |-> NoNode]

\* ResourceStore::get_variant_vec
get_variant_vec(res, variant_name, path) ==
    LET f == maybe_file(res, path)
    IN IF f.err # "Ok" THEN [err |-> f.err, val |-> << >>]
       ELSE IF variant_name = "default" THEN [err |-> "Ok", val |-> f.val.content]
       ELSE IF ~HasResMeta(f.val) THEN [err |-> "NoResourceMetadata", val |-> << >>]
       ELSE IF ~has_variant(f.val.md[ResMetaKey], variant_name)
       THEN [err |-> "NoSuchVariant", val |-> << >>]
       ELSE IF VariantKey(variant_name) \in DOMAIN f.val.md
       THEN [err |-> "Ok", val |-> f.val.md[VariantKey(variant_name)].ref]
       ELSE [err |-> "NoVariantContent", val |-> << >>]

\* file.stream_content / content.stream yield the content block by block.
ChunkSize == 2

RECURSIVE StreamChunks(_)
StreamChunks(bytes) ==
    IF Len(bytes) = 0 THEN << >>
    ELSE IF Len(bytes) <= ChunkSize THEN <<bytes>>
    ELSE <<SubSeq(bytes, 1, ChunkSize)>> \o StreamChunks(SubSeq(bytes, ChunkSize + 1, Len(bytes)))

\* The key get_variant reads: format!("variant_{}", variant_name)
StreamVariantKey(name) == <<"variant_", name>>

\* ResourceStore::get_variant; val is the sequence of chunks of the stream.
get_variant(res, variant_name, path) ==
    LET f == maybe_file(res, path)
    IN IF f.err # "Ok" THEN [err |-> f.err, val |-> << >>]
       ELSE IF variant_name = "default"
       THEN [err |-> "Ok", val |-> StreamChunks(f.val.content)]
       ELSE IF ~HasResMeta(f.val) THEN [err |-> "NoResourceMetadata", val |-> << >>]
       ELSE IF ~has_variant(f.val.md[ResMetaKey], variant_name)
       THEN [err |-> "NoSuchVariant", val |-> << >>]
       ELSE IF StreamVariantKey(variant_name) \in DOMAIN f.val.md
       THEN [err |-> "Ok", val |-> StreamChunks(f.val.md[StreamVariantKey(variant_name)].ref)]
       ELSE [err |-> "NoVariantContent", val |-> << >>]

\* ResourceStore::get_metadata
get_metadata(res, path) ==
    LET f == maybe_file(res, path)
    IN IF f.err # "Ok" THEN [err |-> f.err, val |-> << >>]
       ELSE IF ~HasResMeta(f.val) THEN [err |-> "NoResourceMetadata", val |-> << >>]
       ELSE [err |-> "Ok", val |-> f.val.md[ResMetaKey]]

\* The children of /.resources, as PrivateDirectory::ls(&[]) lists them.
Children(res) == {p \in Paths : Len(p) = 1 /\ res[p].kind # "none"}

\* ResourceStore::ls on /.resources
ls(res) ==
    IF \E p \in Children(res) : ~HasResMeta(res[p])
    THEN [err |-> "NoResourceMetadata", val |-> {}]
    ELSE [err |-> "Ok", val |-> {<<p[1], res[p].md[ResMetaKey]>> : p \in Children(res)}]

\* ResourceStore::search
search(res, fts, text) ==
    LET ids == ix_search(fts, text)
        bad == {id \in ids : get_metadata(res, Split(id)).err # "Ok"}
    IN IF bad # {}
       THEN [err |-> get_metadata(res, Split(CHOOSE id \in bad : TRUE)).err, val |-> {}]
       ELSE [err |-> "Ok", val |-> {<<id, get_metadata(res, Split(id)).val>> : id \in ids}]

(***************************************************************************)
(* file_store.rs.  The files of rootDir/blockstore are a map from file     *)
(* name to bytes; a call returns [err, val, files].                        *)
(***************************************************************************)
\* BlockStore::create_cid: the CID is the hash of the bytes, with the codec;
\* distinct arguments have distinct CIDs.
create_cid(bytes, codec) == <<"cid", codec, bytes>>

\* FileStore::path_for_cid: root.join(cid.to_string())
path_for_cid(cid) == <<"blockstore/">> \o cid

\* put_block that appends to the file when it exists.
put_block_Append(files, bytes, codec, fails) ==
    LET cid == create_cid(bytes, codec)
        name == path_for_cid(cid)
    IN IF fails THEN [err |-> "IPLD", val |-> << >>, files |-> files]
       ELSE [err |-> "Ok", val |-> cid,
             files |-> Put(files, name, IF name \in DOMAIN files THEN files[name] \o bytes ELSE bytes)]

\* FileStore::put_block: fs::write creates the file or replaces its content.
put_block(files, bytes, codec, fails) ==
    LET cid == create_cid(bytes, codec)
    IN IF fails THEN [err |-> "IPLD", val |-> << >>, files |-> files]
       ELSE [err |-> "Ok", val |-> cid, files |-> Put(files, path_for_cid(cid), bytes)]

\* FileStore::get_block: fs::read of the file; io::ErrorKind::NotFound when
\* there is none.
get_block(files, cid) ==
    IF path_for_cid(cid) \in DOMAIN files
    THEN [err |-> "Ok", val |-> files[path_for_cid(cid)], files |-> files]
    ELSE [err |-> "NotFound", val |-> << >>, files |-> files]

(***************************************************************************)
(* The state machine.                                                      *)
(***************************************************************************)
VARIABLES
    forest,         \* self.forest: [res: /.resources, snap: /.index/index.sqlite]
    disk,           \* the forest rootDir/forest.cid names
    resources,      \* index.sqlite, table resources: set of ids
    tags,           \* index.sqlite, table tags: bag of <<id, tag>>
    fts,            \* index.sqlite, table fts: bag of <<id, variant, content>>
    should_update,  \* self.indexer.should_update
    last,           \* the last public call and its arguments
    result,         \* what the last public call returned: "Ok" or the error
    log,            \* the effects of the last public call, in execution order
    nops,           \* public calls made so far
    clean,          \* every public call so far returned Ok
    access_key,     \* rootDir/access.key: the number of the key it holds
    cid_ok,         \* rootDir/forest.cid is present and well-formed
    resource_id,    \* the ResourceId last made from a path
    blocks,         \* the files of rootDir/blockstore: name -> bytes
    returned        \* the value the last block store call returned

vars == <<forest, disk, resources, tags, fts, should_update, last, result, log,
          nops, clean, access_key, cid_ok, resource_id, blocks, returned>>

EmptyBag == EmptyMap

NoCall ==
    [op |-> "new", path |-> << >>, name |-> "", meta |-> VariantMetadata(0, ""),
     content |-> << >>, tag |-> "", desc |-> << >>, tags |-> {}, transforms |-> << >>,
     codec |-> 0, cid |-> << >>]

\* ResourceStore::new on an empty rootDir: a new forest with /.resources and
\* /.index, an empty index, forest.cid written by mkdir's save_state.
Init ==
    /\ forest = [res |-> EmptyDir, snap |-> << >>]
    /\ disk = [res |-> EmptyDir, snap |-> << >>]
    /\ resources = {}
    /\ tags = EmptyBag
    /\ fts = EmptyBag
    /\ should_update = FALSE
    /\ last = NoCall
    /\ result = "Ok"
    /\ log = << >>
    /\ nops = 0
    /\ clean = TRUE
    /\ access_key = 1
    /\ cid_ok = TRUE
    /\ resource_id = << >>
    /\ blocks = EmptyMap
    /\ returned = << >>

\* The handler state at the start of a public call.
Begin(op, content, failAt) ==
    [forest |-> forest, disk |-> disk, resources |-> resources, tags |-> tags,
     fts |-> fts, should_update |-> should_update,
     access_key |-> access_key, cid_ok |-> cid_ok,
     dir |-> EmptyDir, rd |-> [bytes |-> content, pos |-> 0], src |-> << >>,
     results |-> << >>, frame |-> [op |-> op, depth |-> 0],
     io |-> 0, failAt |-> failAt, err |-> "Ok", log |-> << >>, overflow |-> FALSE]

\* The store after the call, and the record of the call.
Finish(s, call) ==
    /\ nops < MaxOps
    /\ ~s.overflow
    /\ forest' = s.forest
    /\ disk' = s.disk
    /\ resources' = s.resources
    /\ tags' = s.tags
    /\ fts' = s.fts
    /\ should_update' = s.should_update
    /\ last' = call
    /\ result' = s.err
    /\ log' = s.log
    /\ nops' = nops + 1
    /\ clean' = (clean /\ s.err = "Ok")
    /\ access_key' = s.access_key
    /\ cid_ok' = s.cid_ok
    /\ resource_id' = Join(call.path)
    /\ UNCHANGED <<blocks, returned>>

CreateResource(path, desc, up, tagSeq, failAt) ==
    Finish(create_resource(Begin("create_resource", up.content, failAt), path, desc, up.meta, tagSeq),
           [NoCall EXCEPT !.op = "create_resource", !.path = path, !.desc = desc,
                          !.meta = up.meta, !.content = up.content, !.tags = Range(tagSeq)])

AddVariant(path, name, up, failAt) ==
    Finish(add_variant(Begin("add_variant", up.content, failAt), path, name, up.meta),
           [NoCall EXCEPT !.op = "add_variant", !.path = path, !.name = name,
                          !.meta = up.meta, !.content = up.content])

UpdateVariant(path, name, up, failAt) ==
    Finish(update_variant(Begin("update_variant", up.content, failAt), path, name, up.meta),
           [NoCall EXCEPT !.op = "update_variant", !.path = path, !.name = name,
                          !.meta = up.meta, !.content = up.content])

DeleteVariant(path, name, failAt) ==
    Finish(delete_variant(Begin("delete_variant", << >>, failAt), path, name),
           [NoCall EXCEPT !.op = "delete_variant", !.path = path, !.name = name])

DeleteResource(path, failAt) ==
    Finish(delete_resource(Begin("delete_resource", << >>, failAt), path),
           [NoCall EXCEPT !.op = "delete_resource", !.path = path])

AddTag(path, tag, failAt) ==
    Finish(add_tag(Begin("add_tag", << >>, failAt), path, tag),
           [NoCall EXCEPT !.op = "add_tag", !.path = path, !.tag = tag])

RemoveTag(path, tag, failAt) ==
    Finish(remove_tag(Begin("remove_tag", << >>, failAt), path, tag),
           [NoCall EXCEPT !.op = "remove_tag", !.path = path, !.tag = tag])

\* apply_variant_transforms is public: a caller hands it the results.
ApplyVariantTransforms(path, transforms, failAt) ==
    Finish(apply_variant_transforms(Begin("apply_variant_transforms", << >>, failAt), path, transforms),
           [NoCall EXCEPT !.op = "apply_variant_transforms", !.path = path,
                          !.transforms = transforms])

\* ResourceStore::init_forest: a new forest with an empty private directory
\* is stored and its access key, a fresh random one, is written to
\* rootDir/access.key.
init_forest(s) ==
    Then(Try(s, "IPLD"), LAMBDA s1 :
    Then(Try(s1, "IPLD"), LAMBDA s2 :
    Then(Try(s2, "IO"), LAMBDA s3 :
      Ev([s3 EXCEPT !.forest = [res |-> EmptyDir, snap |-> << >>],
                    !.access_key = @ + 1], "write_access_key"))))

\* Dropping the store and ResourceStore::new on the same rootDir: the forest
\* is loaded from forest.cid, or made anew by init_forest when forest.cid
\* cannot be read; the indexer opens the live index.sqlite with
\* should_update = false, and the two mkdir calls save the state.
new(s) ==
    IF s.cid_ok
    THEN Then(save_state([s EXCEPT !.forest = s.disk, !.should_update = FALSE]), save_state)
    ELSE Then(init_forest([s EXCEPT !.should_update = FALSE]), LAMBDA s1 :
         Then(save_state(s1), save_state))

Reopen ==
    Finish(new(Begin("new", << >>, 0)), NoCall)

(***************************************************************************)
(* Inputs.  An upload is the VariantMetadata and the content of a call.    *)
(***************************************************************************)
Upload(size, mime, content) == [meta |-> VariantMetadata(size, mime), content |-> content]

EmptyFile == Upload(0, "application/octet-stream", << >>)

TextA == Upload(1, "text/plain", <<"a">>)

TextB == Upload(1, "text/plain", <<"b">>)

ImageA == Upload(2, "image/png", <<"P", "a">>)

ImageB == Upload(2, "image/png", <<"P", "b">>)

\* text/plain content that is not valid UTF-8.
BadText == Upload(1, "text/plain", <<"x">>)

\* An image/png content that does not decode.
BadImage == Upload(2, "image/png", <<"x", "a">>)

PlacesA == Upload(3, "application/x-places+json", <<"{", "a", "}">>)

\* A places content that is not JSON.
BadPlaces == Upload(1, "application/x-places+json", <<"a">>)

ContactA == Upload(3, "application/x-contact+json", <<"{", "a", "}">>)

Uploads == {EmptyFile, TextA, TextB, BadText, ImageA, BadImage, PlacesA, BadPlaces, ContactA}

Desc == <<"d">>

\* The orders in which a HashSet of at most two tags can be iterated.
TagSeqs ==
    {<< >>} \cup {<<x>> : x \in Tags} \cup
    ({<<x, y>> : x \in Tags, y \in Tags} \ {<<x, x>> : x \in Tags})

\* Spec: every public operation, no failing external call.
CreateInputs ==
    {[up |-> EmptyFile, tagSeq |-> << >>],
     [up |-> TextA, tagSeq |-> <<"t1">>],
     [up |-> ImageA, tagSeq |-> << >>]}

Next ==
    \/ \E path \in Paths, c \in CreateInputs :
         CreateResource(path, Desc, c.up, c.tagSeq, 0)
    \/ \E path \in Paths, name \in {"default", "rev"} : AddVariant(path, name, TextB, 0)
    \/ \E path \in Paths, name \in {"default", "rev"} : UpdateVariant(path, name, ImageB, 0)
    \/ \E path \in Paths, name \in {"default", "rev"} : DeleteVariant(path, name, 0)
    \/ \E path \in Paths : DeleteResource(path, 0)
    \/ \E path \in Paths : AddTag(path, "t1", 0)
    \/ \E path \in Paths : RemoveTag(path, "t1", 0)
    \/ Reopen

Spec == Init /\ [][Next]_vars

\* SpecTags: create_resource, add_tag, remove_tag and delete_resource with
\* every tag set, and re-open; no failing external call.
NextTags ==
    \/ \E path \in Paths, tagSeq \in TagSeqs : CreateResource(path, Desc, EmptyFile, tagSeq, 0)
    \/ \E path \in Paths, tag \in Tags : AddTag(path, tag, 0)
    \/ \E path \in Paths, tag \in Tags : RemoveTag(path, tag, 0)
    \/ \E path \in Paths : DeleteResource(path, 0)
    \/ Reopen

SpecTags == Init /\ [][NextTags]_vars

\* SpecContents: contents of every kind are created, replaced and deleted,
\* no failing external call.
ContentPaths == {<<A>>}

NextContents ==
    \/ nops < MaxContentOps /\ \E path \in ContentPaths, up \in Uploads :
         CreateResource(path, Desc, up, << >>, 0)
    \/ nops < MaxContentOps /\ \E path \in ContentPaths, name \in {"default", "rev"}, up \in Uploads :
         UpdateVariant(path, name, up, 0)
    \/ nops < MaxContentOps /\ \E path \in ContentPaths, up \in Uploads :
         AddVariant(path, "rev", up, 0)
    \/ nops < MaxContentOps /\ \E path \in ContentPaths : DeleteResource(path, 0)
    \/ nops < MaxContentOps /\ Reopen

SpecContents == Init /\ [][NextContents]_vars

\* SpecFaults: every public operation on one path, with every external call
\* of every handler failing in some behaviour.
FailAts == 0..MaxFailAt

FaultPath == <<A>>

NextFaults ==
    \/ nops < MaxFaultOps /\ \E up \in {TextA, ImageA}, failAt \in FailAts :
         CreateResource(FaultPath, Desc, up, <<"t1">>, failAt)
    \/ nops < MaxFaultOps /\ \E failAt \in FailAts : AddVariant(FaultPath, "rev", TextB, failAt)
    \/ nops < MaxFaultOps /\ \E name \in {"default", "rev"}, failAt \in FailAts :
         UpdateVariant(FaultPath, name, ImageB, failAt)
    \/ nops < MaxFaultOps /\ \E failAt \in FailAts : DeleteVariant(FaultPath, "rev", failAt)
    \/ nops < MaxFaultOps /\ \E failAt \in FailAts : DeleteResource(FaultPath, failAt)
    \/ nops < MaxFaultOps /\ \E tag \in Tags, failAt \in FailAts : AddTag(FaultPath, tag, failAt)
    \/ nops < MaxFaultOps /\ \E failAt \in FailAts : RemoveTag(FaultPath, "t1", failAt)
    \/ nops < MaxFaultOps /\ Reopen

SpecFaults == Init /\ [][NextFaults]_vars

\* SpecRecover: resources are created and deleted on one path and the store
\* is re-opened, with every external call failing in some behaviour.
NextRecover ==
    \/ nops < MaxRecoverOps /\ \E up \in {TextA, ImageA}, failAt \in FailAts :
         CreateResource(FaultPath, Desc, up, <<"t1">>, failAt)
    \/ nops < MaxRecoverOps /\ \E failAt \in FailAts : DeleteResource(FaultPath, failAt)
    \/ nops < MaxRecoverOps /\ Reopen

SpecRecover == Init /\ [][NextRecover]_vars

\* The TransformerResults handed to apply_variant_transforms: each kind, for
\* the names "default" and "thumbnail".
TransformerResult(kind, name) ==
    [kind |-> kind, name |-> name,
     meta |-> VariantMetadata(2, "image/jpeg"), content |-> Thumb(ImageA.content)]

TransformInputs ==
    {<<TransformerResult(kind, name)>> : kind \in {"Create", "Update", "Delete"},
                                          name \in {"default", "thumbnail"}}
    \cup {<<TransformerResult("Create", "default"), TransformerResult("Update", "thumbnail")>>}

\* SpecTransforms: resources are created and deleted and transformer results
\* are applied to them; no failing external call.
NextTransforms ==
    \/ \E up \in {TextA, ImageA} : CreateResource(<<A>>, Desc, up, << >>, 0)
    \/ \E transforms \in TransformInputs : ApplyVariantTransforms(<<A>>, transforms, 0)
    \/ DeleteResource(<<A>>, 0)

SpecTransforms == Init /\ [][NextTransforms]_vars

\* rootDir/forest.cid is missing or malformed at the next open: to_cbor
\* rewrites the file in place with fs::write, and a process that stops in
\* that write leaves it truncated.
LoseForestCid ==
    /\ cid_ok
    /\ cid_ok' = FALSE
    /\ UNCHANGED <<forest, disk, resources, tags, fts, should_update, last, result,
                   log, nops, clean, access_key, resource_id, blocks, returned>>

\* SpecKey: resources are created and tagged, forest.cid is lost, the store
\* is re-opened; no failing external call.
NextKey ==
    \/ nops < MaxKeyOps /\ \E path \in Paths, c \in CreateInputs :
         CreateResource(path, Desc, c.up, c.tagSeq, 0)
    \/ nops < MaxKeyOps /\ \E path \in Paths : AddTag(path, "t1", 0)
    \/ nops < MaxKeyOps /\ LoseForestCid
    \/ nops < MaxKeyOps /\ Reopen

SpecKey == Init /\ [][NextKey]_vars

\* SpecIds: a ResourceId is made from a path, for every path of at most
\* MaxIdLen components of at most MaxCompLen characters, "/" included.
IdChars == {"a", "b", "/"}

IdComponents == UNION {[1..n -> IdChars] : n \in 0..MaxCompLen}

IdPaths == UNION {[1..n -> IdComponents] : n \in 0..MaxIdLen}

\* let id: ResourceId = path.into();
FromPath(path) ==
    /\ last' = [NoCall EXCEPT !.op = "ResourceId::from", !.path = path]
    /\ resource_id' = Join(path)
    /\ UNCHANGED <<forest, disk, resources, tags, fts, should_update, result, log,
                   nops, clean, access_key, cid_ok, blocks, returned>>

NextIds == last = NoCall /\ \E path \in IdPaths : FromPath(path)

SpecIds == Init /\ [][NextIds]_vars

\* SpecBlocks: blocks are put and read, with and without a failing write.
BlockBytes == {<< >>, <<"a">>, <<"b">>, <<"a", "b">>}

\* The codecs of the blocks wnfs stores: raw and dag-cbor.
Codecs == {85, 113}

\* A block store call and what it returned.
BlockCall(call, r) ==
    /\ nops < MaxBlockOps
    /\ last' = call
    /\ result' = r.err
    /\ returned' = r.val
    /\ blocks' = r.files
    /\ nops' = nops + 1
    /\ clean' = (clean /\ r.err = "Ok")
    /\ UNCHANGED <<forest, disk, resources, tags, fts, should_update, log,
                   access_key, cid_ok, resource_id>>

PutBlock(bytes, codec, fails) ==
    BlockCall([NoCall EXCEPT !.op = "put_block", !.content = bytes, !.codec = codec],
              put_block(blocks, bytes, codec, fails))

GetBlock(cid) ==
    BlockCall([NoCall EXCEPT !.op = "get_block", !.cid = cid], get_block(blocks, cid))

NextBlocks ==
    \/ \E bytes \in BlockBytes, codec \in Codecs, fails \in BOOLEAN : PutBlock(bytes, codec, fails)
    \/ \E bytes \in BlockBytes, codec \in Codecs : GetBlock(create_cid(bytes, codec))

SpecBlocks == Init /\ [][NextBlocks]_vars

(***************************************************************************)
(* Vocabulary of the properties.                                           *)
(***************************************************************************)
Mutations ==
    {"create_resource", "add_variant", "update_variant", "delete_variant",
     "delete_resource", "add_tag", "remove_tag"}

Ok(v) == [err |-> "Ok", val |-> v]

\* The paths that hold a resource in a /.resources directory.
ResourcePaths(res) == {p \in Paths : HasResMeta(get_node(res, p))}

\* The (id, tag) pairs of the resources of a /.resources directory.
TreeTagPairs(res) ==
    UNION {{<<Join(p), tg>> : tg \in res[p].md[ResMetaKey].tags} : p \in ResourcePaths(res)}

Queries == {<<"a">>, <<"b">>, <<"d">>}

\* What the read operations of the store return.
Observable(res, ftsTable) ==
    [ls |-> ls(res),
     metadata |-> [p \in Paths |-> get_metadata(res, p)],
     variants |-> [p \in Paths |-> [n \in {"default", "rev", "thumbnail"} |-> get_variant_vec(res, n, p)]],
     search |-> [q \in Queries |-> search(res, ftsTable, q)]]

Events(l) == {l[i].ev : i \in DOMAIN l}

IsIndexEvent(e) ==
    e.ev \in {"ix_add_resource", "ix_delete_resource", "ix_delete_variant",
              "ix_add_tag", "ix_remove_tag", "ix_add_text"}

(***************************************************************************)
(* C1.  A successful create_resource(path, desc, meta, tags, b) followed   *)
(* by get_variant_vec("default", path) returns exactly b, whatever b is.   *)
(***************************************************************************)
C1_RoundTrip ==
    (last.op = "create_resource" /\ result = "Ok")
        => get_variant_vec(forest.res, "default", last.path) = Ok(last.content)

\* A text/plain resource was created: the extractor has read the stream
\* before the file writer did.
C1_Witness ==
    /\ last.op = "create_resource"
    /\ result = "Ok"
    /\ last.meta.mime_type = "text/plain"
    /\ last.content # << >>

(***************************************************************************)
(* C2.  After successful mutations, closing the store and opening it again *)
(* preserves what ls, get_metadata, get_variant_vec and search return.     *)
(***************************************************************************)
C2_ReopenPreserves ==
    [][(last'.op = "new" /\ clean)
          => Observable(forest'.res, fts') = Observable(forest.res, fts)]_vars

\* The store was re-opened with a resource that has a non-default variant.
C2_Witness ==
    /\ last.op = "new"
    /\ clean
    /\ \E p \in ResourcePaths(forest.res) : has_variant(forest.res[p].md[ResMetaKey], "rev")

(***************************************************************************)
(* C3.  A public mutation that returns an error leaves the forest that     *)
(* forest.cid names unchanged.                                             *)
(***************************************************************************)
C3_FailedMutationKeepsCid ==
    [][(last'.op \in Mutations /\ result' # "Ok") => disk' = disk]_vars

(***************************************************************************)
(* C4.  In every state reached by successful operations, every inode under *)
(* /.resources carries a "res_meta" with a "default" variant, and          *)
(* ls(/.resources) succeeds.                                               *)
(***************************************************************************)
C4_MetadataTotality ==
    clean =>
        /\ \A p \in Paths :
             forest.res[p].kind # "none" =>
               /\ HasResMeta(forest.res[p])
               /\ has_variant(forest.res[p].md[ResMetaKey], "default")
        /\ ls(forest.res).err = "Ok"

(***************************************************************************)
(* C5.  After successful operations, the ids of the resources table are    *)
(* exactly the ids of the resources in the tree.                           *)
(***************************************************************************)
C5_ResourcesTableMatchesTree ==
    clean => resources = {Join(p) : p \in ResourcePaths(forest.res)}

(***************************************************************************)
(* C6.  After successful create_resource, add_tag, remove_tag and          *)
(* delete_resource calls, the (id, tag) pairs of the tags table are        *)
(* exactly those of the resources in the tree.                             *)
(***************************************************************************)
C6_TagsTableMatchesTree ==
    clean => DOMAIN tags = TreeTagPairs(forest.res)

(***************************************************************************)
(* C7.  A successful mutation on a resource leaves the index rows of that  *)
(* resource matching the tree, also when an earlier mutation has failed.   *)
(***************************************************************************)
C7_SuccessResynchronizes ==
    (last.op \in Mutations /\ result = "Ok") =>
        /\ Join(last.path) \in resources <=> last.path \in ResourcePaths(forest.res)
        /\ {r \in DOMAIN tags : r[1] = Join(last.path)}
             = {r \in TreeTagPairs(forest.res) : r[1] = Join(last.path)}

\* Event i of the log comes before event j, in one frame of the handler.
SameFrameBefore(i, j) == log[i].depth = log[j].depth => i < j

IndexFirstOps == {"create_resource", "add_variant", "update_variant"}

TreeFirstOps == {"delete_variant", "delete_resource", "add_tag", "remove_tag"}

(***************************************************************************)
(* C8.  In every mutating operation the indexer is updated before the tree *)
(* mutation is stored into the forest, and the tree mutation is stored     *)
(* before forest.cid is written.                                           *)
(***************************************************************************)
C8_IndexThenTreeThenCid ==
    \A i, j \in DOMAIN log :
        /\ (IsIndexEvent(log[i]) /\ log[j].ev = "store_dir") => SameFrameBefore(i, j)
        /\ (log[i].ev = "store_dir" /\ log[j].ev = "write_forest_cid") => SameFrameBefore(i, j)

(***************************************************************************)
(* C8, as the code has it.  create_resource, add_variant and               *)
(* update_variant update the indexer before they store the tree mutation;  *)
(* delete_variant, delete_resource, add_tag and remove_tag store the tree  *)
(* mutation before they update the indexer; each operation does both       *)
(* before it writes forest.cid.                                            *)
(***************************************************************************)
C8_OrderPerOperation ==
    \A i, j \in DOMAIN log :
        /\ (IsIndexEvent(log[i]) /\ log[j].ev = "store_dir" /\ log[i].op \in IndexFirstOps)
              => SameFrameBefore(i, j)
        /\ (IsIndexEvent(log[i]) /\ log[j].ev = "store_dir" /\ log[i].op \in TreeFirstOps)
              => SameFrameBefore(j, i)
        /\ ((IsIndexEvent(log[i]) \/ log[i].ev = "store_dir") /\ log[j].ev = "write_forest_cid")
              => SameFrameBefore(i, j)

\* A tag was added: tree store, index update and forest.cid write all happened.
C8_Witness ==
    /\ last.op = "add_tag"
    /\ result = "Ok"
    /\ {"store_dir", "ix_add_tag", "write_forest_cid"} \subseteq Events(log)

C10_UpdateDefaultRunsTransformers ==
    [][(/\ last'.op = "update_variant"
        /\ last'.name = "default"
        /\ result' = "Ok"
        /\ last'.path \in ResourcePaths(forest.res)
        /\ StartsWithImage(last'.meta.mime_type)
        /\ Decodes(last'.content))
          => /\ "run_transformers" \in Events(log')
             /\ get_variant_vec(forest'.res, "thumbnail", last'.path)
                  = Ok(Thumb(last'.content))]_vars

VariantNames == {"default", "rev", "thumbnail"}

RECURSIVE Concat(_)
Concat(chunks) == IF Len(chunks) = 0 THEN << >> ELSE Head(chunks) \o Concat(Tail(chunks))

(***************************************************************************)
(* C11.  Whenever get_variant_vec(name, path) succeeds, get_variant(name,  *)
(* path) succeeds too and the chunks it streams, concatenated, are the     *)
(* bytes get_variant_vec returns.                                          *)
(***************************************************************************)
C11_StreamSameAsVec ==
    \A p \in Paths, n \in VariantNames :
        get_variant_vec(forest.res, n, p).err = "Ok" =>
            /\ get_variant(forest.res, n, p).err = "Ok"
            /\ Concat(get_variant(forest.res, n, p).val) = get_variant_vec(forest.res, n, p).val

(***************************************************************************)
(* C12.  delete_variant(path, "default") and add_variant(path, "default",  *)
(* ...) fail with InvalidVariant on every path and change neither the      *)
(* tree, the index tables, the dirty flag nor forest.cid.                  *)
(***************************************************************************)
C12_DefaultIsInvalidVariant ==
    [][(last'.op \in {"add_variant", "delete_variant"} /\ last'.name = "default")
          => /\ result' = "InvalidVariant"
             /\ UNCHANGED <<forest, disk, resources, tags, fts, should_update>>]_vars

\* delete_variant of "default" was refused on an existing resource.
C12_Witness ==
    /\ last.op = "delete_variant"
    /\ last.name = "default"
    /\ result = "InvalidVariant"
    /\ last.path \in ResourcePaths(forest.res)

(***************************************************************************)
(* C13.  The variants of an existing resource always contain "default":    *)
(* no operation removes it between create_resource and delete_resource.    *)
(***************************************************************************)
C13_DefaultAlwaysPresent ==
    \A p \in ResourcePaths(forest.res) : has_variant(forest.res[p].md[ResMetaKey], "default")

\* A non-default variant was deleted from a resource, which is still there.
C13_Witness ==
    /\ last.op = "delete_variant"
    /\ result = "Ok"
    /\ last.path \in ResourcePaths(forest.res)
    /\ ~has_variant(forest.res[last.path].md[ResMetaKey], last.name)

\* The tree change of the last call, as it shows in a /.resources directory.
TreeChangeIn(res) ==
    LET node == get_node(res, last.path)
    IN CASE last.op = "create_resource" ->
              HasResMeta(node) /\ node.content = last.content
         [] last.op \in {"add_variant", "update_variant"} /\ last.name # "default" ->
              /\ HasResMeta(node)
              /\ VariantKey(last.name) \in DOMAIN node.md
              /\ node.md[VariantKey(last.name)].ref = last.content
         [] last.op = "update_variant" /\ last.name = "default" ->
              node.kind = "file" /\ node.content = last.content
         [] last.op = "delete_variant" ->
              HasResMeta(node) /\ ~has_variant(node.md[ResMetaKey], last.name)
         [] last.op = "delete_resource" -> node.kind = "none"
         [] last.op = "add_tag" -> HasResMeta(node) /\ last.tag \in node.md[ResMetaKey].tags
         [] last.op = "remove_tag" -> HasResMeta(node) /\ last.tag \notin node.md[ResMetaKey].tags
         [] OTHER -> TRUE

(***************************************************************************)
(* C14.  When a public mutation returns Ok, forest.cid names the forest    *)
(* the store holds, and that forest contains the mutation's tree change.   *)
(***************************************************************************)
C14_OkMeansCommitted ==
    (last.op \in Mutations /\ result = "Ok") => (disk = forest /\ TreeChangeIn(disk.res))

\* A resource was deleted.
C14_Witness ==
    /\ last.op = "delete_resource"
    /\ result = "Ok"
    /\ Join(last.path) \notin resources
    /\ disk.res[last.path].kind = "none"

\* The index rows of one resource id, in the three tables.
RowsOf(id, resourcesTable, tagsTable, ftsTable) ==
    [resources |-> resourcesTable \cap {id},
     tags |-> [r \in {x \in DOMAIN tagsTable : x[1] = id} |-> tagsTable[r]],
     fts |-> [r \in {x \in DOMAIN ftsTable : x[1] = id} |-> ftsTable[r]]]

(***************************************************************************)
(* C15.  create_resource on a path that holds a resource fails, and leaves *)
(* the resource's content and ResourceMetadata, its index rows and         *)
(* forest.cid unchanged.                                                   *)
(***************************************************************************)
C15_CreateOnExistingFails ==
    [][(last'.op = "create_resource" /\ last'.path \in ResourcePaths(forest.res))
          => /\ result' # "Ok"
             /\ forest'.res[last'.path] = forest.res[last'.path]
             /\ RowsOf(Join(last'.path), resources', tags', fts')
                  = RowsOf(Join(last'.path), resources, tags, fts)
             /\ disk' = disk]_vars

(***************************************************************************)
(* C16.  After a successful add_variant(path, name, meta, content):        *)
(* get_variant_vec(name, path) returns content, get_metadata(path) has     *)
(* meta under name, and the content of every other variant is unchanged.   *)
(***************************************************************************)
C16_AddVariantFrame ==
    [][(last'.op = "add_variant" /\ result' = "Ok")
          => /\ get_variant_vec(forest'.res, last'.name, last'.path) = Ok(last'.content)
             /\ get_metadata(forest'.res, last'.path).err = "Ok"
             /\ get_metadata(forest'.res, last'.path).val.variants[last'.name] = last'.meta
             /\ \A n \in VariantNames \ {last'.name} :
                  get_variant_vec(forest'.res, n, last'.path)
                    = get_variant_vec(forest.res, n, last'.path)]_vars

\* A variant with content was added to an image, which has a thumbnail.
C16_Witness ==
    /\ last.op = "add_variant"
    /\ result = "Ok"
    /\ last.content # << >>
    /\ get_variant_vec(forest.res, "thumbnail", last.path).err = "Ok"
    /\ get_variant_vec(forest.res, "default", last.path).val # << >>

(***************************************************************************)
(* C17.  After a successful delete_resource(path) no query makes search    *)
(* find the resource, ls(/.resources) does not list it, and                *)
(* get_variant_vec("default", path) and get_metadata(path) fail with       *)
(* NoSuchResource.                                                         *)
(***************************************************************************)
C17_DeletedResourceIsGone ==
    (last.op = "delete_resource" /\ result = "Ok") =>
        /\ \A q \in Queries :
             /\ Join(last.path) \notin ix_search(fts, q)
             /\ \A hit \in search(forest.res, fts, q).val : hit[1] # Join(last.path)
        /\ Len(last.path) = 1 => \A entry \in ls(forest.res).val : entry[1] # last.path[1]
        /\ get_variant_vec(forest.res, "default", last.path).err = "NoSuchResource"
        /\ get_metadata(forest.res, last.path).err = "NoSuchResource"

\* A resource was deleted while another one is still found by search and
\* listed by ls.
C17_Witness ==
    /\ last.op = "delete_resource"
    /\ result = "Ok"
    /\ search(forest.res, fts, Desc).err = "Ok"
    /\ search(forest.res, fts, Desc).val # {}
    /\ ls(forest.res).val # {}

\* The fts rows of the variants of id other than name.
OtherFtsRows(ftsTable, id, name) ==
    [r \in {x \in DOMAIN ftsTable : x[1] = id /\ x[2] # name} |-> ftsTable[r]]

\* What delete_variant(path, name) leaves in a /.resources directory.
VariantGoneIn(res, path, name) ==
    /\ get_metadata(res, path).err = "Ok"
    /\ ~has_variant(get_metadata(res, path).val, name)
    /\ VariantKey(name) \notin DOMAIN res[path].md
    /\ get_variant_vec(res, name, path).err = "NoSuchVariant"

(***************************************************************************)
(* C18.  After a successful delete_variant(path, name): the variant is     *)
(* absent from the metadata, its reference is removed from the inode, no   *)
(* fts row of (id, name) remains, get_variant_vec(name, path) fails, the   *)
(* other variants, their fts rows and the tags are unchanged; the          *)
(* committed forest shows the same.                                        *)
(***************************************************************************)
C18_DeleteVariantFrame ==
    [][(last'.op = "delete_variant" /\ result' = "Ok")
          => /\ VariantGoneIn(forest'.res, last'.path, last'.name)
             /\ VariantGoneIn(disk'.res, last'.path, last'.name)
             /\ \A r \in DOMAIN fts' : ~(r[1] = Join(last'.path) /\ r[2] = last'.name)
             /\ OtherFtsRows(fts', Join(last'.path), last'.name)
                  = OtherFtsRows(fts, Join(last'.path), last'.name)
             /\ \A n \in VariantNames \ {last'.name} :
                  /\ get_variant_vec(forest'.res, n, last'.path)
                       = get_variant_vec(forest.res, n, last'.path)
                  /\ get_variant_vec(disk'.res, n, last'.path)
                       = get_variant_vec(forest.res, n, last'.path)
                  /\ has_variant(get_metadata(forest'.res, last'.path).val, n)
                       <=> has_variant(get_metadata(forest.res, last'.path).val, n)
             /\ get_metadata(forest'.res, last'.path).val.tags
                  = get_metadata(forest.res, last'.path).val.tags]_vars

\* A text variant was deleted: its text is no longer found, the description
\* still is.
C18_Witness ==
    /\ last.op = "delete_variant"
    /\ result = "Ok"
    /\ Join(last.path) \notin ix_search(fts, <<"b">>)
    /\ Join(last.path) \in ix_search(fts, Desc)

\* The text the indexer extracts from the content of the last call.
NewText(call) == Extract([bytes |-> call.content, pos |-> 0], call.meta.mime_type)

\* The fts rows of one variant of id.
VariantFtsRows(ftsTable, id, name) ==
    [r \in {x \in DOMAIN ftsTable : x[1] = id /\ x[2] = name} |-> ftsTable[r]]

\* The fts rows a variant has once the text of a call is indexed for it.
RowsOfText(call, name) ==
    IF NewText(call).some
    THEN [r \in {<<Join(call.path), name, lower_lay_string(NewText(call).text)>>} |-> 1]
    ELSE EmptyBag

(***************************************************************************)
(* C19.  After a successful update_variant(path, name, meta, content) of   *)
(* an existing non-default variant: get_variant_vec(name, path) returns    *)
(* content, the variant names are unchanged, the text of the old content   *)
(* of that variant is no longer found by search and the text of the new    *)
(* content is.                                                             *)
(***************************************************************************)
C19_UpdateVariantReplaces ==
    [][(/\ last'.op = "update_variant"
        /\ last'.name # "default"
        /\ result' = "Ok"
        /\ last'.path \in ResourcePaths(forest.res)
        /\ has_variant(forest.res[last'.path].md[ResMetaKey], last'.name))
          => /\ get_variant_vec(forest'.res, last'.name, last'.path) = Ok(last'.content)
             /\ DOMAIN get_metadata(forest'.res, last'.path).val.variants
                  = DOMAIN get_metadata(forest.res, last'.path).val.variants
             /\ VariantFtsRows(fts', Join(last'.path), last'.name) = RowsOfText(last', last'.name)
             /\ OtherFtsRows(fts', Join(last'.path), last'.name)
                  = OtherFtsRows(fts, Join(last'.path), last'.name)
             /\ \A q \in Queries :
                  (NewText(last').some /\ Contains(lower_lay_string(NewText(last').text), q))
                     => Join(last'.path) \in ix_search(fts', q)]_vars

\* The text variant "rev" was given another text: the old one is not found
\* any more, the new one is.
C19_Witness ==
    /\ last.op = "update_variant"
    /\ last.name = "rev"
    /\ result = "Ok"
    /\ last.content = <<"b">>
    /\ last.meta.mime_type = "text/plain"
    /\ nops >= 3
    /\ Join(last.path) \in ix_search(fts, <<"b">>)
    /\ Join(last.path) \notin ix_search(fts, <<"a">>)

\* The ids search(q) returns; none when it fails.
SearchIds(res, ftsTable, q) == {hit[1] : hit \in search(res, ftsTable, q).val}

(***************************************************************************)
(* C20.  After a successful update_variant(path, "default", meta,          *)
(* content): get_variant_vec("default", path) returns content, every       *)
(* non-default variant keeps its content and its metadata entry, search    *)
(* for a text of the old default content only returns no hit, and search   *)
(* for a text of the new content returns the resource.                     *)
(***************************************************************************)
C20_UpdateDefaultReplaces ==
    [][(last'.op = "update_variant" /\ last'.name = "default" /\ result' = "Ok")
          => /\ get_variant_vec(forest'.res, "default", last'.path) = Ok(last'.content)
             /\ last'.path \in ResourcePaths(forest.res) =>
                  \A n \in DOMAIN forest.res[last'.path].md[ResMetaKey].variants \ {"default"} :
                     /\ get_variant_vec(forest'.res, n, last'.path)
                          = get_variant_vec(forest.res, n, last'.path)
                     /\ has_variant(get_metadata(forest'.res, last'.path).val, n)
                     /\ get_metadata(forest'.res, last'.path).val.variants[n]
                          = forest.res[last'.path].md[ResMetaKey].variants[n]
             /\ VariantFtsRows(fts', Join(last'.path), "default") = RowsOfText(last', "default")
             /\ \A q \in Queries :
                  (NewText(last').some /\ Contains(lower_lay_string(NewText(last').text), q))
                     => Join(last'.path) \in SearchIds(forest'.res, fts', q)]_vars

\* The MIME types with a registered extractor.
Extractable(mime) == mime \in {"text/plain", "application/x-places+json"}

\* The rows of fts a description desc of resource id accounts for.
DescRows(id, desc) == {<<id, "default", lower_lay_string(desc)>>}

(***************************************************************************)
(* C21.  create_resource on a path that holds nothing and is not in the    *)
(* index, and add_variant of a new variant on a resource, with a MIME type *)
(* that has no registered extractor (application/x-contact+json            *)
(* included), succeed: the resources row is recorded and no extracted      *)
(* text is inserted in fts for that variant.                               *)
(***************************************************************************)
C21_UnknownMimeSucceeds ==
    [][/\ (/\ last'.op = "create_resource"
           /\ ~Extractable(last'.meta.mime_type)
           /\ Join(last'.path) \notin resources
           /\ open_file_mut(forest.res, last'.path).err = "Ok"
           /\ get_node(forest.res, last'.path).kind = "none")
            => /\ result' = "Ok"
               /\ Join(last'.path) \in resources'
               /\ DOMAIN VariantFtsRows(fts', Join(last'.path), "default")
                    \subseteq DescRows(Join(last'.path), last'.desc)
       /\ (/\ last'.op = "add_variant"
           /\ ~Extractable(last'.meta.mime_type)
           /\ last'.name # "default"
           /\ last'.path \in ResourcePaths(forest.res)
           /\ ~has_variant(forest.res[last'.path].md[ResMetaKey], last'.name))
            => /\ result' = "Ok"
               /\ DOMAIN VariantFtsRows(fts', Join(last'.path), last'.name) = {}]_vars

\* The rows of fts of (id, name) that hold an extracted text: all of them
\* but the description of the resource at id, indexed under "default".
ExtractedRows(res, ftsTable, id, name) ==
    LET rows == VariantFtsRows(ftsTable, id, name)
        desc == IF Split(id) \in ResourcePaths(res)
                THEN DescRows(id, res[Split(id)].md[ResMetaKey].desc)
                ELSE {}
    IN [r \in DOMAIN rows |-> IF r \in desc THEN rows[r] - 1 ELSE rows[r]]

RECURSIVE RowCount(_)
\* The number of rows of a table, copies counted.
RowCount(table) ==
    IF DOMAIN table = {} THEN 0
    ELSE LET r == CHOOSE x \in DOMAIN table : TRUE
         IN table[r] + RowCount(Del(table, r))

\* (id, name) is a variant of a resource of the tree with an extractable MIME.
ExtractableVariant(res, id, name) ==
    /\ Split(id) \in ResourcePaths(res)
    /\ has_variant(res[Split(id)].md[ResMetaKey], name)
    /\ Extractable(res[Split(id)].md[ResMetaKey].variants[name].mime_type)

(***************************************************************************)
(* C22.  After any sequence of successful operations the fts table holds,  *)
(* the description rows set aside, exactly one row for each (id, variant)  *)
(* whose MIME type is extractable and no row for any other pair.           *)
(***************************************************************************)
C22_OneFtsRowPerExtractableVariant ==
    clean =>
      \A p \in Paths, name \in VariantNames :
         RowCount(ExtractedRows(forest.res, fts, Join(p), name))
           = IF ExtractableVariant(forest.res, Join(p), name) THEN 1 ELSE 0

\* q occurs in text.
Substring(text, q) ==
    \E i \in 0..(Len(text) - Len(q)) : SubSeq(text, i + 1, i + Len(q)) = q

\* The queries of search: plain, upper case, with a diacritic, with the
\* characters "_" and "%".
SearchQueries == Queries \cup {<<"A">>, <<"É">>, <<"a", "_">>, <<"_">>, <<"%">>}

\* The indexed texts of id: the contents of its fts rows, normalized when
\* they were inserted.
IndexedTexts(ftsTable, id) == {r[3] : r \in {x \in DOMAIN ftsTable : x[1] = id}}

(***************************************************************************)
(* C23.  search(q) returns a resource exactly when normalize(q) is a       *)
(* substring of one of the normalized indexed texts of that resource       *)
(* (a set of ids: each resource at most once).                             *)
(***************************************************************************)
C23_SearchIsNormalizedSubstring ==
    \A q \in SearchQueries, p \in Paths :
       Join(p) \in ix_search(fts, q)
         <=> \E t \in IndexedTexts(fts, Join(p)) : Substring(t, lower_lay_string(q))

(***************************************************************************)
(* C24.  On an existing resource and for a name other than "default" that  *)
(* is not a key of ResourceMetadata.variants, get_variant_vec(name, path)  *)
(* and delete_variant(path, name) fail with NoSuchVariant, and the failed  *)
(* delete_variant leaves the tree, the index and forest.cid unchanged.     *)
(***************************************************************************)
C24_NoSuchVariant ==
    /\ [](\A p \in ResourcePaths(forest.res), n \in VariantNames \ {"default"} :
             ~has_variant(forest.res[p].md[ResMetaKey], n)
               => get_variant_vec(forest.res, n, p).err = "NoSuchVariant")
    /\ [][(/\ last'.op = "delete_variant"
           /\ last'.name # "default"
           /\ last'.path \in ResourcePaths(forest.res)
           /\ ~has_variant(forest.res[last'.path].md[ResMetaKey], last'.name))
            => /\ result' = "NoSuchVariant"
               /\ forest' = forest
               /\ disk' = disk
               /\ <<resources', tags', fts'>> = <<resources, tags, fts>>]_vars

\* delete_variant of a missing variant failed on a resource that is indexed.
C24_Witness ==
    /\ last.op = "delete_variant"
    /\ result = "NoSuchVariant"
    /\ last.path \in ResourcePaths(forest.res)
    /\ get_variant_vec(forest.res, last.name, last.path).err = "NoSuchVariant"
    /\ Join(last.path) \in resources
    /\ VariantFtsRows(fts, Join(last.path), "default") # EmptyBag

(***************************************************************************)
(* C25.  access.key is written once, at first initialisation: no later     *)
(* new(rootDir) and no mutation rewrites it, forest.cid missing or         *)
(* malformed at open included.                                             *)
(***************************************************************************)
C25_AccessKeyWrittenOnce ==
    [][access_key' = access_key]_vars

\* Every result of the last apply_variant_transforms is named "default".
OnlyDefaultResults(call) ==
    /\ call.op = "apply_variant_transforms"
    /\ \A i \in DOMAIN call.transforms : call.transforms[i].name = "default"

(***************************************************************************)
(* C26.  apply_variant_transforms skips every transformer result named     *)
(* "default", be it Create, Update or Delete: the resource, the index and  *)
(* forest.cid are unchanged and no error is returned.                      *)
(***************************************************************************)
C26_DefaultResultsFiltered ==
    [][OnlyDefaultResults(last')
         => /\ result' = "Ok"
            /\ forest' = forest
            /\ disk' = disk
            /\ <<resources', tags', fts'>> = <<resources, tags, fts>>]_vars

(***************************************************************************)
(* C27.  A successful create_resource with a default MIME type that starts *)
(* with "image/" and a content that decodes leaves the resource with       *)
(* exactly the variants "default" and "thumbnail", the thumbnail being     *)
(* image/jpeg; with a MIME type that does not start with "image/" the      *)
(* resource has exactly the variant "default".                             *)
(***************************************************************************)
C27_ThumbnailOnlyForImages ==
    [][(last'.op = "create_resource" /\ result' = "Ok")
         => LET md == get_metadata(forest'.res, last'.path)
            IN /\ md.err = "Ok"
               /\ (StartsWithImage(last'.meta.mime_type) /\ Decodes(last'.content))
                    => /\ DOMAIN md.val.variants = {"default", "thumbnail"}
                       /\ md.val.variants["thumbnail"].mime_type = "image/jpeg"
                       /\ get_variant_vec(forest'.res, "thumbnail", last'.path)
                            = Ok(Thumb(last'.content))
               /\ ~StartsWithImage(last'.meta.mime_type)
                    => /\ DOMAIN md.val.variants = {"default"}
                       /\ log' # << >>
                       /\ \A i \in DOMAIN log' : log'[i].depth = 0]_vars

\* An image was created with its thumbnail.
C27_Witness ==
    /\ last.op = "create_resource"
    /\ result = "Ok"
    /\ StartsWithImage(last.meta.mime_type)
    /\ Decodes(last.content)
    /\ DOMAIN get_metadata(forest.res, last.path).val.variants = {"default", "thumbnail"}
    /\ get_variant_vec(forest.res, "default", last.path) = Ok(last.content)

\* The last call has written a row of the index.
IndexWritten(l) == \E i \in DOMAIN l : IsIndexEvent(l[i])

(***************************************************************************)
(* C28.  In a mutation the dirty flag of the indexer is cleared only by    *)
(* save_state, once the snapshot of the index is written in the tree; a    *)
(* mutation that fails before that leaves the flag set; and the next       *)
(* successful mutation writes the snapshot and clears the flag.            *)
(***************************************************************************)
C28_DirtyFlagClearedBySnapshot ==
    [][last'.op \in Mutations =>
         /\ ((should_update \/ IndexWritten(log')) /\ ~should_update')
              => /\ "store_index" \in Events(log')
                 /\ forest'.snap = [resources |-> resources', tags |-> tags', fts |-> fts']
         /\ ((should_update \/ IndexWritten(log')) /\ "store_index" \notin Events(log'))
              => should_update'
         /\ (should_update /\ result' = "Ok")
              => /\ ~should_update'
                 /\ "store_index" \in Events(log')
                 /\ disk'.snap = [resources |-> resources', tags |-> tags', fts |-> fts']]_vars

\* delete_variant failed in the snapshot step of save_state: the row is
\* deleted, the snapshot is not written, the flag is set.
C28_Witness ==
    /\ last.op = "delete_variant"
    /\ result # "Ok"
    /\ "ix_delete_variant" \in Events(log)
    /\ "store_index" \notin Events(log)
    /\ should_update
    /\ forest.snap # [resources |-> resources, tags |-> tags, fts |-> fts]

\* The tags get_metadata returns for the resource at p.
TagsAt(res, p) == get_metadata(res, p).val.tags

(***************************************************************************)
(* C29.  Tags are a set that survives re-open: a successful add_tag        *)
(* inserts the tag in get_metadata(path).tags (nothing changes when it is  *)
(* there), a successful remove_tag removes it (nothing changes when it is  *)
(* absent), create_resource starts from the tags it is given, and no other *)
(* successful call, re-opening the store included, changes the tags of a   *)
(* resource.                                                               *)
(***************************************************************************)
C29_TagsAreASet ==
    [][result' = "Ok" =>
         /\ last'.op = "create_resource" => TagsAt(forest'.res, last'.path) = last'.tags
         /\ (last'.op = "add_tag" /\ last'.path \in ResourcePaths(forest.res))
              => TagsAt(forest'.res, last'.path) = TagsAt(forest.res, last'.path) \cup {last'.tag}
         /\ (last'.op = "remove_tag" /\ last'.path \in ResourcePaths(forest.res))
              => TagsAt(forest'.res, last'.path) = TagsAt(forest.res, last'.path) \ {last'.tag}
         /\ \A p \in ResourcePaths(forest.res) \cap ResourcePaths(forest'.res) :
              (last'.op \notin {"create_resource", "add_tag", "remove_tag"} \/ p # last'.path)
                 => TagsAt(forest'.res, p) = TagsAt(forest.res, p)
         /\ last'.op = "new" => ResourcePaths(forest'.res) = ResourcePaths(forest.res)]_vars

\* One of two tags was removed: the other one is what get_metadata returns.
C29_Witness ==
    /\ last.op = "remove_tag"
    /\ result = "Ok"
    /\ last.tag = "t1"
    /\ last.path \in ResourcePaths(forest.res)
    /\ TagsAt(forest.res, last.path) = {"t2"}
    /\ TagsAt(disk.res, last.path) = {"t2"}

\* The inputs of the conversion: at least one component, no component is
\* empty, none holds a "/".
ValidPath(path) ==
    /\ Len(path) > 0
    /\ \A i \in DOMAIN path : Len(path[i]) > 0 /\ \A j \in DOMAIN path[i] : path[i][j] # "/"

(***************************************************************************)
(* C30.  The conversion to a ResourceId is lossless: for a path of one or  *)
(* more non-empty components without "/", the ResourceId made from the     *)
(* path converts back to the same path; so every id of the index resolves  *)
(* to the path it was made from.                                           *)
(***************************************************************************)
C30_ResourceIdRoundTrip ==
    /\ ValidPath(last.path) => (resource_id = Join(last.path) /\ Split(resource_id) = last.path)
    /\ \A rid \in resources : \E p \in Paths : rid = Join(p) /\ Split(rid) = p

\* A ResourceId was made from a path of two components of two characters.
C30_Witness ==
    /\ last.op = "ResourceId::from"
    /\ ValidPath(last.path)
    /\ Len(last.path) = 2
    /\ Len(last.path[1]) = 2
    /\ Len(resource_id) = 5
    /\ Split(resource_id) = last.path

\* The CIDs of the blocks that can be put.
BlockCids == {create_cid(bytes, codec) : bytes \in BlockBytes, codec \in Codecs}

(***************************************************************************)
(* C31.  The block store is content-addressed and idempotent: a successful *)
(* put_block(bytes, codec) returns the CID of its arguments and leaves one *)
(* file, named by that CID and holding bytes, the other files untouched    *)
(* and nothing changed when the block was there; get_block(cid) returns    *)
(* the bytes that were put under cid, and fails with a not-found error     *)
(* for a CID that was never put.                                           *)
(***************************************************************************)
C31_BlockStoreContentAddressed ==
    /\ [](\A cid \in BlockCids :
             path_for_cid(cid) \in DOMAIN blocks
               => \E codec \in Codecs : cid = create_cid(blocks[path_for_cid(cid)], codec))
    /\ [][/\ (last'.op = "put_block" /\ result' = "Ok")
               => /\ returned' = create_cid(last'.content, last'.codec)
                  /\ get_block(blocks', returned') = [err |-> "Ok", val |-> last'.content, files |-> blocks']
                  /\ DOMAIN blocks' = DOMAIN blocks \cup {path_for_cid(returned')}
                  /\ \A f \in DOMAIN blocks \ {path_for_cid(returned')} : blocks'[f] = blocks[f]
                  /\ path_for_cid(returned') \in DOMAIN blocks => blocks' = blocks
          /\ last'.op = "get_block"
               => /\ blocks' = blocks
                  /\ IF path_for_cid(last'.cid) \in DOMAIN blocks
                     THEN result' = "Ok" /\ last'.cid \in {create_cid(returned', codec) : codec \in Codecs}
                     ELSE result' = "NotFound"]_vars

\* The same block was put twice: one file, and get_block returns its bytes.
C31_Witness ==
    /\ last.op = "put_block"
    /\ result = "Ok"
    /\ clean
    /\ nops = 2
    /\ Len(last.content) = 2
    /\ DOMAIN blocks = {path_for_cid(returned)}
    /\ get_block(blocks, returned).val = last.content

(***************************************************************************)
(* C32.  In delete_resource the rows of the index are removed after the    *)
(* tree mutation is stored and before forest.cid is written; when the tree *)
(* removal fails no row of the index is removed.                           *)
(***************************************************************************)
C32_DeleteResourceOrder ==
    /\ [](last.op = "delete_resource" =>
            \A i, j \in DOMAIN log :
               /\ (log[i].ev = "store_dir" /\ log[j].ev = "ix_delete_resource") => i < j
               /\ (log[i].ev = "ix_delete_resource" /\ log[j].ev = "write_forest_cid") => i < j
               /\ log[j].ev = "write_forest_cid"
                    => \E k \in DOMAIN log : log[k].ev = "ix_delete_resource")
    /\ [][(last'.op = "delete_resource" /\ "store_dir" \notin Events(log'))
            => /\ result' # "Ok"
               /\ <<resources', tags', fts'>> = <<resources, tags, fts>>]_vars

\* The tree removal of an indexed resource failed: its rows are in the index.
C32_Witness ==
    /\ last.op = "delete_resource"
    /\ result # "Ok"
    /\ "store_dir" \notin Events(log)
    /\ last.path \in ResourcePaths(forest.res)
    /\ Join(last.path) \in resources
    /\ VariantFtsRows(fts, Join(last.path), "default") # EmptyBag

\* The variant a call writes the content of.
WrittenVariant(call) == IF call.op = "create_resource" THEN "default" ELSE call.name

(***************************************************************************)
(* C33.  In create_resource, add_variant and update_variant, called with a *)
(* stream at offset 0, every consumer reads the stream from offset 0: the  *)
(* extractor indexes the text of the whole content, the thumbnail is made  *)
(* of the whole content and the file writer stores the whole content.      *)
(***************************************************************************)
C33_ConsumersReadFromStart ==
    [][(last'.op \in {"create_resource", "add_variant", "update_variant"} /\ result' = "Ok")
         => /\ get_variant_vec(forest'.res, WrittenVariant(last'), last'.path) = Ok(last'.content)
            /\ NewText(last').some
                 => <<Join(last'.path), WrittenVariant(last'), lower_lay_string(NewText(last').text)>>
                      \in DOMAIN fts'
            /\ (last'.op = "create_resource" /\ StartsWithImage(last'.meta.mime_type)
                  /\ Decodes(last'.content))
                 => get_variant_vec(forest'.res, "thumbnail", last'.path) = Ok(Thumb(last'.content))]_vars

\* An image was created: the thumbnailer read the stream to its end before
\* the file writer started, and the whole image is stored.
C33_Witness ==
    /\ last.op = "create_resource"
    /\ result = "Ok"
    /\ last.meta.mime_type = "image/png"
    /\ Len(last.content) = 2
    /\ get_variant_vec(forest.res, "default", last.path) = Ok(last.content)
    /\ get_variant_vec(forest.res, "thumbnail", last.path) = Ok(Thumb(last.content))

(***************************************************************************)
(* C34.  In every state reached by successful operations, each variant     *)
(* other than "default" listed in the ResourceMetadata of a resource has   *)
(* its content reference under "{variant}_variant" in the same inode:      *)
(* get_variant_vec of a listed variant does not fail with                  *)
(* NoVariantContent.                                                       *)
(***************************************************************************)
C34_ListedVariantHasContent ==
    clean =>
      \A p \in ResourcePaths(forest.res) :
         \A n \in DOMAIN forest.res[p].md[ResMetaKey].variants \ {"default"} :
            /\ VariantKey(n) \in DOMAIN forest.res[p].md
            /\ get_variant_vec(forest.res, n, p).err = "Ok"

\* A resource lists the variants "rev" and "thumbnail", both with a content.
C34_Witness ==
    /\ clean
    /\ \E p \in ResourcePaths(forest.res) :
         /\ {"rev", "thumbnail"} \subseteq DOMAIN forest.res[p].md[ResMetaKey].variants
         /\ get_variant_vec(forest.res, "rev", p).err = "Ok"
         /\ get_variant_vec(forest.res, "thumbnail", p).err = "Ok"

(***************************************************************************)
(* C35.  add_variant, update_variant (of "default" and of other names),    *)
(* delete_variant, add_tag, remove_tag and delete_resource, called on a    *)
(* path that holds no resource, return an error and leave the tree, the    *)
(* index and forest.cid unchanged: none of them creates an inode.          *)
(***************************************************************************)
C35_NoResourceNoEffect ==
    [][(/\ last'.op \in Mutations \ {"create_resource"}
        /\ last'.path \notin ResourcePaths(forest.res))
         => /\ result' # "Ok"
            /\ forest' = forest
            /\ disk' = disk
            /\ <<resources', tags', fts'>> = <<resources, tags, fts>>]_vars

(***************************************************************************)
(* C36.  A mutation that fails after it has stored its tree change into    *)
(* the in-memory forest leaves the reads of the same store instance as     *)
(* they were before the call, and the next successful mutation commits     *)
(* the previously committed tree plus only its own effect: a tag mutation  *)
(* commits no change of the variants map, a variant mutation commits no    *)
(* change of the tags.                                                     *)
(***************************************************************************)
TreeReads(res) ==
    [ls |-> ls(res),
     metadata |-> [p \in Paths |-> get_metadata(res, p)],
     variants |-> [p \in Paths |-> [n \in {"default", "rev", "thumbnail"} |-> get_variant_vec(res, n, p)]]]

CommittedMeta(d, p) == get_metadata(d.res, p)

C36_FailedChangeNotKept ==
    [][/\ (last'.op \in Mutations /\ result' # "Ok")
            => TreeReads(forest'.res) = TreeReads(forest.res)
       /\ (/\ last'.op \in {"add_tag", "remove_tag"}
           /\ result' = "Ok"
           /\ CommittedMeta(disk, last'.path).err = "Ok")
            => /\ CommittedMeta(disk', last'.path).err = "Ok"
               /\ CommittedMeta(disk', last'.path).val.variants
                    = CommittedMeta(disk, last'.path).val.variants
       /\ (/\ last'.op \in {"add_variant", "update_variant", "delete_variant"}
           /\ result' = "Ok"
           /\ CommittedMeta(disk, last'.path).err = "Ok")
            => /\ CommittedMeta(disk', last'.path).err = "Ok"
               /\ CommittedMeta(disk', last'.path).val.tags
                    = CommittedMeta(disk, last'.path).val.tags]_vars

(***************************************************************************)
(* C37.  The description of a resource stays searchable for as long as     *)
(* the resource exists: after any sequence of successful add_variant,      *)
(* update_variant (of "default" too), delete_variant, add_tag and          *)
(* remove_tag calls, search(q) returns the resource for every q that is a  *)
(* substring of its description.                                           *)
(***************************************************************************)
DescQueries(desc) == {q \in Queries : Substring(desc, q)}

DescriptionFound(res, ftsTable, p) ==
    \A q \in DescQueries(get_metadata(res, p).val.desc) :
       /\ search(res, ftsTable, q).err = "Ok"
       /\ Join(p) \in SearchIds(res, ftsTable, q)

C37_DescriptionStaysSearchable ==
    [][(/\ last'.op \in Mutations \ {"create_resource", "delete_resource"}
        /\ result' = "Ok"
        /\ last'.path \in ResourcePaths(forest.res)
        /\ DescriptionFound(forest.res, fts, last'.path))
         => DescriptionFound(forest'.res, fts', last'.path)]_vars

(***************************************************************************)
(* C38.  The index holds no stale text: after any sequence of successful   *)
(* operations, search(q) returns a resource only if normalize(q) is a      *)
(* substring of its description or of the text extracted from the current  *)
(* content of one of its current variants, add_variant with a name the     *)
(* resource already has included.  The content of a variant counts under   *)
(* every MIME type an extractor reads, whatever type the metadata records. *)
(***************************************************************************)
ExtractedNow(content) ==
    {lower_lay_string(Extract([bytes |-> content, pos |-> 0], mime).text) :
       mime \in {m \in {"text/plain", "application/x-places+json"} :
                   Extract([bytes |-> content, pos |-> 0], m).err = "Ok"}}

CurrentTexts(res, p) ==
    {lower_lay_string(res[p].md[ResMetaKey].desc)}
      \cup UNION {ExtractedNow(get_variant_vec(res, n, p).val) :
                    n \in DOMAIN res[p].md[ResMetaKey].variants}

C38_NoStaleText ==
    clean =>
      \A q \in Queries, p \in Paths :
         Join(p) \in SearchIds(forest.res, fts, q)
           => /\ p \in ResourcePaths(forest.res)
              /\ \E t \in CurrentTexts(forest.res, p) : Substring(t, lower_lay_string(q))

(***************************************************************************)
(* C39.  search(q) returns Ok in every reachable state, states reached     *)
(* after failed mutations included: every id the indexer returns for a     *)
(* query names a resource present in the tree, so resolving the metadata   *)
(* of a hit never fails the whole search.                                  *)
(***************************************************************************)
C39_SearchNeverFails ==
    \A q \in Queries :
       /\ search(forest.res, fts, q).err = "Ok"
       /\ \A rid \in ix_search(fts, q) : Split(rid) \in ResourcePaths(forest.res)

(***************************************************************************)
(* C40.  update_variant(path, "default", meta, content) leaves the         *)
(* ResourceMetadata of the resource unchanged: desc, tags and the whole    *)
(* variants map, the size and MIME type recorded for "default" included,   *)
(* are the same after the call as before it; the meta argument is not      *)
(* stored.                                                                 *)
(***************************************************************************)
C40_UpdateDefaultKeepsMetadata ==
    [][(/\ last'.op = "update_variant"
        /\ last'.name = "default"
        /\ last'.path \in ResourcePaths(forest.res))
         => /\ last'.path \in ResourcePaths(forest'.res)
            /\ get_metadata(forest'.res, last'.path) = get_metadata(forest.res, last'.path)
            /\ result' = "Ok"
                 => get_metadata(disk'.res, last'.path) = get_metadata(forest.res, last'.path)]_vars

\* An update of "default" succeeded with a meta argument that differs from
\* the recorded default entry, and the new content is in place.
C40_Witness ==
    /\ last.op = "update_variant"
    /\ last.name = "default"
    /\ result = "Ok"
    /\ last.path \in ResourcePaths(forest.res)
    /\ get_metadata(forest.res, last.path).val.variants["default"] # last.meta
    /\ get_variant_vec(forest.res, "default", last.path) = Ok(last.content)

=============================================================================
